---- MODULE Spec2Model ----
(***************************************************************************)
(* Controlled-robot engine of robot_remote_control: the request evaluator, *)
(* the command slots, the telemetry and map buffers, the permission        *)
(* promises and the heartbeat supervision of ControlledRobot.              *)
(*                                                                         *)
(* Units: time is counted in tenths of a second, so the constructor's      *)
(* heartbeatAllowedLatency(0.1) is 1.                                       *)
(***************************************************************************)
EXTENDS Integers, Sequences, FiniteSets, TLC

(***************************************************************************)
(* Bounds of the model                                                     *)
(***************************************************************************)
\* largest value of a message field that the inputs carry
MaxVal == 2
\* most blobs waiting on the command transport at one time
MaxQueue == 2
\* the clock stops advancing here
MaxTime == 4
MaxPayload == 2
\* most callbacks registered for one command kind, and most global callbacks
MaxCallbacks == 2

(***************************************************************************)
(* Message kinds (MessageTypes.hpp)                                        *)
(***************************************************************************)
NO_CONTROL_DATA == 0
TARGET_POSE_COMMAND == 1
TWIST_COMMAND == 2
HEARTBEAT == 8
PERMISSION == 9
TELEMETRY_REQUEST == 12
MAP_REQUEST == 13
LOG_LEVEL_SELECT == 14
FILE_REQUEST == 15
\* a kind that is neither handled by the switch nor registered
UNKNOWN_KIND == 65535

CURRENT_POSE == 1
LOG_MESSAGE == 10
MAPS_DEFINITION == 15
PERMISSION_REQUEST == 19

\* LogLevel: NONE=0, FATAL, ERROR, WARN, INFO, DEBUG, CUSTOM=20
CUSTOM == 20

\* the constructor's registerCommandType calls (those the model carries)
RegisteredCommands == {TARGET_POSE_COMMAND, TWIST_COMMAND, HEARTBEAT, PERMISSION}
\* the slots user code reads with getXCommand
UserCommands == {TARGET_POSE_COMMAND, TWIST_COMMAND}
\* slots that are written by the default case of evaluateRequest
WrittenCommands == {TARGET_POSE_COMMAND, TWIST_COMMAND, HEARTBEAT}
\* the constructor's registerTelemetryType calls (those the model carries)
TelemetryKinds == {CURRENT_POSE, LOG_MESSAGE, MAPS_DEFINITION, PERMISSION_REQUEST}

(***************************************************************************)
(* Payload codec: a message has two scalar fields; a field that holds the  *)
(* default 0 is not written, a field is written as its tag byte (field     *)
(* number * 8, wire type varint) followed by its value.                    *)
(***************************************************************************)
Byte == 0..255
Values == 0..MaxVal
Message == [f1 : Nat, f2 : Nat]
Default == [f1 |-> 0, f2 |-> 0]
Msg(a, b) == [f1 |-> a, f2 |-> b]

FieldTag(n) == 8 * n

\* MessageLite::SerializeToString / AppendToString
SerializeToString(v) ==
    (IF v.f1 # 0 THEN <<FieldTag(1), v.f1>> ELSE <<>>) \o
    (IF v.f2 # 0 THEN <<FieldTag(2), v.f2>> ELSE <<>>)

\* MessageLite::MergeFromString: fields are merged left to right, the last
\* occurrence wins; a truncated field or an invalid tag stops the parse and
\* leaves what was merged so far.
RECURSIVE MergeFromString(_, _)
MergeFromString(bytes, v) ==
    IF bytes = <<>> THEN [ok |-> TRUE, val |-> v]
    ELSE IF Len(bytes) < 2 THEN [ok |-> FALSE, val |-> v]
    ELSE IF bytes[1] = FieldTag(1)
         THEN MergeFromString(SubSeq(bytes, 3, Len(bytes)), [v EXCEPT !.f1 = bytes[2]])
    ELSE IF bytes[1] = FieldTag(2)
         THEN MergeFromString(SubSeq(bytes, 3, Len(bytes)), [v EXCEPT !.f2 = bytes[2]])
    ELSE [ok |-> FALSE, val |-> v]

\* MessageLite::ParseFromString: Clear(), then merge
ParseFromString(bytes) == MergeFromString(bytes, Default)

(***************************************************************************)
(* Wire framing: the kind is written as a raw uint16 of the host           *)
(* (little-endian) in front of the payload.                                *)
(***************************************************************************)
U16(n) == n % 65536

\* what *reinterpret_cast<uint16_t*>(p) = type stores
WriteU16(type) == <<U16(type) % 256, U16(type) \div 256>>

\* a read of the first byte only
ReadU16LowByte(bytes) == bytes[1]

\* what *reinterpret_cast<uint16_t*>(p) reads from two bytes
ReadU16(bytes) == bytes[1] + 256 * bytes[2]

\* ControlledRobot::addControlMessageType
addControlMessageType(buf, type) == buf \o WriteU16(type)

\* ControlledRobot::serializeControlMessageType
serializeControlMessageType(type) == addControlMessageType(<<>>, type)

\* a blob as the controller frames it
Blob(kind, payload) == WriteU16(kind) \o payload

\* the head/tail split at the top of evaluateRequest (blobs of 2 bytes or more)
RequestType(request) == ReadU16(request)
RequestPayload(request) == SubSeq(request, 3, Len(request))

(***************************************************************************)
(* State                                                                   *)
(***************************************************************************)
VARIABLES
    telemetryTransport,         \* TRUE iff the constructor got a telemetry transport (non-null)
    ZLIB_FOUND,                 \* TRUE iff the build has the compressor
    files,                      \* the file definitions: sequence of [identifier, path, isFolder]
    pc,                         \* position of the update thread: "idle", "recv", "write" or "finish"
    queued,                     \* number of blobs waiting on the command transport
    lastEval,                   \* what the last receiveRequest did
    commandSlots,               \* kind -> [command, isnew] (CommandBuffer)
    buffers,                    \* telemetry kind -> ring of capacity 1 (TelemetryBuffer)
    mapBuffer,                  \* [size, data]: SimpleBuffer<std::string>
    logLevel,                   \* uint32_t logLevel
    pendingPermissionRequests,  \* requestuid -> promise
    heartbeatValues,            \* HeartBeat heartbeatValues
    heartbeatTimer,             \* Timer heartbeatTimer
    heartbeatAllowedLatency,    \* float heartbeatAllowedLatency
    heartbeatExpiredCallback,   \* TRUE iff a callback is set
    connected,                  \* std::atomic<bool> connected
    now,                        \* the monotonic clock
    lastCall,                   \* what the last call of the public interface did
    fault,                      \* "none", or "terminated" once the process died
    hist,                       \* history kept for stating the properties
    oldRobot,                   \* the robot of the older variant (src/src/ControlledRobot.cpp)
    frame,                      \* a blob that was tagged and then split, with what went in and came out
    callbacks,                  \* kind -> CommandBufferBase::callbacks, each by what it does
    commandCallbacks,           \* number of entries of std::vector commandCallbacks
    reader,                     \* a user thread inside CommandBuffer::read, statement by statement
    writer,                     \* the blob the update thread is writing into a slot (pc = "write")
    pushers,                    \* user threads inside sendTelemetry, statement by statement
    lastSent                    \* the blob telemetryTransport->send got last

vars == <<telemetryTransport, ZLIB_FOUND, files, pc, queued, lastEval, commandSlots,
          buffers, mapBuffer, logLevel, pendingPermissionRequests, heartbeatValues,
          heartbeatTimer, heartbeatAllowedLatency, heartbeatExpiredCallback, connected,
          now, lastCall, fault, hist, oldRobot, frame, callbacks, commandCallbacks,
          reader, writer, pushers, lastSent>>

\* the build and the constructor arguments never change
config == <<telemetryTransport, ZLIB_FOUND, files>>

\* the callbacks user code registered
registry == <<callbacks, commandCallbacks>>

\* the threads that are followed statement by statement
threads == <<reader, writer, pushers, lastSent>>

(***************************************************************************)
(* CommandBuffer<COMMAND>                                                  *)
(***************************************************************************)
\* CommandBuffer(): isnew(false), command default-constructed
NewCommandBuffer == [command |-> Default, isnew |-> FALSE]

\* CommandBuffer::write that leaves the flag alone when the parse fails
CommandBufferWriteKeepsFlag(slot, serializedMessage) ==
    LET p == ParseFromString(serializedMessage) IN
    IF ~p.ok
    THEN [slot |-> [command |-> p.val, isnew |-> slot.isnew], ok |-> FALSE,
          notified |-> FALSE]
    ELSE [slot |-> [command |-> p.val, isnew |-> TRUE], ok |-> TRUE, notified |-> TRUE]

\* CommandBuffer::write that parses into a temporary and keeps the stored
\* command when the parse fails
CommandBufferWriteKeepsValue(slot, serializedMessage) ==
    LET p == ParseFromString(serializedMessage) IN
    IF ~p.ok
    THEN [slot |-> [command |-> slot.command, isnew |-> FALSE], ok |-> FALSE,
          notified |-> FALSE]
    ELSE [slot |-> [command |-> p.val, isnew |-> TRUE], ok |-> TRUE, notified |-> TRUE]

\* bool CommandBuffer::write(const std::string&): parses in place; the
\* result is the slot, the return value and whether notify() ran
CommandBufferWrite(slot, serializedMessage) ==
    LET p == ParseFromString(serializedMessage) IN
    IF ~p.ok
    THEN [slot |-> [command |-> p.val, isnew |-> FALSE], ok |-> FALSE, notified |-> FALSE]
    ELSE [slot |-> [command |-> p.val, isnew |-> TRUE], ok |-> TRUE, notified |-> TRUE]

\* CommandBuffer::read with the store of false forgotten
CommandBufferReadKeepsNew(slot) ==
    [slot |-> slot, oldval |-> slot.isnew, target |-> slot.command]

\* bool CommandBuffer::read(COMMAND *target)
CommandBufferRead(slot) ==
    [slot |-> [slot EXCEPT !.isnew = FALSE], oldval |-> slot.isnew, target |-> slot.command]

(***************************************************************************)
(* TelemetryBuffer and the map buffer (rings of capacity 1)                *)
(***************************************************************************)
\* RingBufferAccess::pushData(buffer, data, overwrite = true) on a ring of size 1
pushData(ring, data) == <<data>>

\* RingBufferAccess::peekData: the ring's head, nothing when the ring is empty
peekData(ring, empty) == IF ring = <<>> THEN empty ELSE ring[1]

\* TelemetryBuffer::peekSerialized: the kind tag and the serialized head of
\* the slot, an empty string when nothing was pushed
peekSerialized(bufs, type) ==
    IF type \notin DOMAIN bufs \/ bufs[type] = <<>>
    THEN <<>>
    ELSE WriteU16(type) \o SerializeToString(bufs[type][1])

MapIds == {0, 1, 65536}
MapBytes == {<<v>> : v \in 1..MaxVal}

\* SimpleBuffer::initBufferID: the buffer covers ids 0..mapId afterwards
initBufferID(mb, mapId) ==
    [mb EXCEPT !.size = IF mapId + 1 > @ THEN mapId + 1 ELSE @]

\* the element access lockedAccess.get()[id] of the map buffer
MapRing(mb, id) == IF id \in DOMAIN mb.data THEN mb.data[id] ELSE <<>>

(***************************************************************************)
(* Timer (UpdateThread/Timer.hpp)                                          *)
(***************************************************************************)
NewTimer == [started |-> FALSE, startTime |-> 0, timeout |-> 0]

\* Timer::start(timeout)
TimerStart(timeout, t) == [started |-> TRUE, startTime |-> t, timeout |-> timeout]

\* Timer::getElapsedTime
TimerElapsed(timer, t) == t - timer.startTime

\* Timer::isExpired: true once per start, when more than the timeout elapsed
TimerIsExpired(timer, t) == timer.started /\ TimerElapsed(timer, t) > timer.timeout

\* the timer after isExpired was asked
TimerAfterIsExpired(timer, t) ==
    IF TimerIsExpired(timer, t) THEN [timer EXCEPT !.started = FALSE] ELSE timer

(***************************************************************************)
(* std::promise<bool> / std::shared_future<bool>                           *)
(***************************************************************************)
\* the request uids the model carries
Uids == {1, 2}
NoPromise == [present |-> FALSE, retrieved |-> FALSE, satisfied |-> FALSE, value |-> FALSE]
NewPromise == [NoPromise EXCEPT !.present = TRUE]

\* std::map::operator[]: the entry, default-constructed when absent
MapEntry(table, uid) == IF table[uid].present THEN table[uid] ELSE NewPromise

\* promise.set_value(granted): throws promise_already_satisfied the second time
PromiseSetValue(promise, granted) ==
    IF promise.satisfied
    THEN [promise |-> promise, threw |-> TRUE]
    ELSE [promise |-> [promise EXCEPT !.satisfied = TRUE, !.value = granted], threw |-> FALSE]

\* promise.get_future(): throws future_already_retrieved the second time
PromiseGetFuture(promise) ==
    IF promise.retrieved
    THEN [promise |-> promise, threw |-> TRUE]
    ELSE [promise |-> [promise EXCEPT !.retrieved = TRUE], threw |-> FALSE]

(***************************************************************************)
(* File responder: Folder replies and the filesystem                       *)
(*                                                                         *)
(* Identifiers and paths are small numbers; the texts the code builds from *)
(* them are numbers too.  What the filesystem answers is an input of the   *)
(* request: fs.readable (the ifstream opens), fs.listing ("ok", or the     *)
(* directory iteration throws at the start or after the first entry).      *)
(***************************************************************************)
FileDefs == << [identifier |-> 1, path |-> 11, isFolder |-> FALSE],
               [identifier |-> 2, path |-> 12, isFolder |-> TRUE] >>
FsOutcomes == [readable : BOOLEAN, listing : {"ok", "fail_start", "fail_mid"}]
NoFs == [readable |-> TRUE, listing |-> "ok"]

\* "file/folder :" + identifier + " undefined"
UndefinedText(identifier) == 100 + identifier
\* filesystem_error::what() for a path
ErrorText(path) == 200 + path
\* the entries the recursive iteration of a folder yields
FolderEntries(path) == <<path + 10, path + 20>>
\* the bytes of a file, and what Compression::compressString makes of them
FileContent(path) == path + 1
Compressed(data) == data + 50

EmptyFolder == [identifier |-> 0, compressed |-> FALSE, file |-> <<>>]

\* ControlledRobot::loadFile: path always set, data only when the file opens
loadFile(path, compressed, fs) ==
    [path |-> path,
     data |-> IF fs.readable
              THEN (IF ZLIB_FOUND /\ compressed
                    THEN Compressed(FileContent(path)) ELSE FileContent(path))
              ELSE 0]

\* ControlledRobot::loadFolder
loadFolder(folder, path, compressed, fs) ==
    LET entries == FolderEntries(path)
        loaded(n) == [i \in 1..n |-> loadFile(entries[i], compressed, fs)]
    IN  CASE fs.listing = "ok" ->
               [folder EXCEPT !.file = @ \o loaded(Len(entries)), !.compressed = compressed]
          [] fs.listing = "fail_start" ->
               [folder EXCEPT !.identifier = ErrorText(path)]
          [] fs.listing = "fail_mid" ->
               [folder EXCEPT !.file = @ \o loaded(1), !.identifier = ErrorText(path)]

\* Folder::SerializeToString
RECURSIVE SerializeFiles(_)
SerializeFiles(fl) ==
    IF fl = <<>> THEN <<>>
    ELSE <<FieldTag(3), fl[1].path, fl[1].data>> \o SerializeFiles(Tail(fl))

SerializeFolder(folder) ==
    (IF folder.identifier # 0 THEN <<FieldTag(1), folder.identifier>> ELSE <<>>) \o
    (IF folder.compressed THEN <<FieldTag(2), 1>> ELSE <<>>) \o
    SerializeFiles(folder.file)

\* the linear scan over files.file(i).identifier(): first match, or -1
RECURSIVE FindFile(_, _, _)
FindFile(fl, identifier, i) ==
    IF i > Len(fl) THEN -1
    ELSE IF fl[i].identifier = identifier THEN i
    ELSE FindFile(fl, identifier, i + 1)

(***************************************************************************)
(* ControlledRobot::evaluateRequest                                        *)
(*                                                                         *)
(* Each case yields what the handler returns (ret), the blobs it hands to  *)
(* commandTransport->send in order (sends), the order of its steps (trace),*)
(* whether it caught a future_error (caught), the callbacks it invoked     *)
(* with the ACK between them (events) and the members it assigns.          *)
(***************************************************************************)
Effects(ret, sends, trace) ==
    [ret |-> ret, sends |-> sends, trace |-> trace, caught |-> FALSE, events |-> <<>>,
     commandSlots |-> commandSlots, logLevel |-> logLevel,
     pending |-> pendingPermissionRequests]

\* case TELEMETRY_REQUEST
EvalTelemetryRequest(serializedMessage) ==
    LET type == ReadU16(serializedMessage)
        reply == peekSerialized(buffers, type)
    IN  Effects(TELEMETRY_REQUEST, <<reply>>,
                <<"lock buffers", "peek", "unlock buffers", "send">>)

\* case MAP_REQUEST with the kind written in front of the map
EvalMapRequestTagged(serializedMessage) ==
    LET requestedMap == ReadU16(serializedMessage)
        map == IF requestedMap < mapBuffer.size
               THEN peekData(MapRing(mapBuffer, requestedMap), <<>>)
               ELSE <<>>
    IN  Effects(MAP_REQUEST, <<WriteU16(MAP_REQUEST) \o map>>, <<"peek", "send">>)

\* case MAP_REQUEST with the send inside the block that holds lockedAccess
EvalMapRequestSendsLocked(serializedMessage) ==
    LET requestedMap == ReadU16(serializedMessage)
        map == IF requestedMap < mapBuffer.size
               THEN peekData(MapRing(mapBuffer, requestedMap), <<>>)
               ELSE <<>>
    IN  Effects(MAP_REQUEST, <<map>>,
                <<"lock mapBuffer", "peek", "send", "unlock mapBuffer">>)

\* case MAP_REQUEST
EvalMapRequest(serializedMessage) ==
    LET requestedMap == ReadU16(serializedMessage)
        map == IF requestedMap < mapBuffer.size
               THEN peekData(MapRing(mapBuffer, requestedMap), <<>>)
               ELSE <<>>
    IN  Effects(MAP_REQUEST, <<map>>,
                <<"lock mapBuffer", "peek", "unlock mapBuffer", "send">>)

\* case LOG_LEVEL_SELECT
EvalLogLevelSelect(serializedMessage) ==
    [Effects(LOG_LEVEL_SELECT, <<serializeControlMessageType(LOG_LEVEL_SELECT)>>,
             <<"assign", "send">>)
        EXCEPT !.logLevel = ReadU16(serializedMessage)]

\* case PERMISSION with a promise whose value can be set again
EvalPermissionOverwrites(serializedMessage) ==
    LET perm == ParseFromString(serializedMessage).val
        requestuid == perm.f1
        granted == perm.f2 # 0
        promise == MapEntry(pendingPermissionRequests, requestuid)
    IN  [Effects(PERMISSION, <<serializeControlMessageType(PERMISSION)>>,
                 <<"set_value", "send">>)
            EXCEPT !.pending = [pendingPermissionRequests EXCEPT ![requestuid] =
                                   [promise EXCEPT !.satisfied = TRUE, !.value = granted]],
                   !.caught = promise.satisfied]

\* case PERMISSION
EvalPermission(serializedMessage) ==
    LET perm == ParseFromString(serializedMessage).val
        requestuid == perm.f1
        granted == perm.f2 # 0
        set == PromiseSetValue(MapEntry(pendingPermissionRequests, requestuid), granted)
    IN  [Effects(PERMISSION, <<serializeControlMessageType(PERMISSION)>>,
                 <<"set_value", "send">>)
            EXCEPT !.pending = [pendingPermissionRequests EXCEPT ![requestuid] = set.promise],
                   !.caught = set.threw]

\* case FILE_REQUEST with the index starting at the first definition instead of -1
FileRequestFolderFirstByDefault(serializedMessage, fs) ==
    LET request == ParseFromString(serializedMessage).val
        identifier == request.f1
        compressed == IF ZLIB_FOUND THEN request.f2 # 0 ELSE FALSE
        found == FindFile(files, identifier, 1)
        index == IF found = -1 THEN 1 ELSE found
    IN  IF index >= 1 /\ index <= Len(files)
        THEN IF files[index].isFolder
             THEN loadFolder(EmptyFolder, files[index].path, compressed, fs)
             ELSE [EmptyFolder EXCEPT
                      !.file = <<loadFile(files[index].path, compressed, fs)>>,
                      !.compressed = compressed]
        ELSE [EmptyFolder EXCEPT !.identifier = UndefinedText(identifier)]

\* case FILE_REQUEST
FileRequestFolder(serializedMessage, fs) ==
    LET request == ParseFromString(serializedMessage).val
        identifier == request.f1
        compressed == IF ZLIB_FOUND THEN request.f2 # 0 ELSE FALSE
        index == FindFile(files, identifier, 1)
    IN  IF index >= 1 /\ index <= Len(files)
        THEN IF files[index].isFolder
             THEN loadFolder(EmptyFolder, files[index].path, compressed, fs)
             ELSE [EmptyFolder EXCEPT
                      !.file = <<loadFile(files[index].path, compressed, fs)>>,
                      !.compressed = compressed]
        ELSE [EmptyFolder EXCEPT !.identifier = UndefinedText(identifier)]

EvalFileRequest(serializedMessage, fs) ==
    Effects(FILE_REQUEST, <<SerializeFolder(FileRequestFolder(serializedMessage, fs))>>,
            <<"load", "send">>)

\* EvalCommand with the reply forgotten on the decode-failure path
EvalCommandSilentFailure(msgtype, serializedMessage) ==
    IF msgtype \in RegisteredCommands
    THEN LET w == CommandBufferWrite(commandSlots[msgtype], serializedMessage)
             slots == [commandSlots EXCEPT ![msgtype] = w.slot]
         IN  IF ~w.ok
             THEN [Effects(NO_CONTROL_DATA, <<>>, <<"write">>)
                     EXCEPT !.commandSlots = slots]
             ELSE [Effects(msgtype, <<serializeControlMessageType(msgtype)>>,
                           <<"write", "notify", "send", "notifyCommandCallbacks">>)
                     EXCEPT !.commandSlots = slots]
    ELSE Effects(msgtype, <<serializeControlMessageType(NO_CONTROL_DATA)>>, <<"send">>)

\* what a per-kind callback does when it runs: nothing with the slot, or it
\* reads the slot (getXCommand inside the callback)
CallbackKinds == {"observe", "read"}

\* one callback invocation or the ACK, with the slot's flag and value at that
\* moment (what a read of the slot returns there)
Event(cb, type, does, slot) ==
    [cb |-> cb, type |-> type, does |-> does, fresh |-> slot.isnew, value |-> slot.command]

\* CommandBufferBase::notify(): the callbacks of the slot run in the order
\* they were registered, from callbacks[i] on; one that reads clears the flag
RECURSIVE notify(_, _, _, _)
notify(slot, type, cbs, i) ==
    IF i > Len(cbs)
    THEN [slot |-> slot, events |-> <<>>]
    ELSE LET here == IF cbs[i] = "read" THEN CommandBufferRead(slot).slot ELSE slot
             rest == notify(here, type, cbs, i + 1)
         IN  [slot |-> rest.slot,
              events |-> <<Event("kind", type, cbs[i], slot)>> \o rest.events]

\* ControlledRobot::notifyCommandCallbacks(type): every global callback gets type
notifyCommandCallbacks(type, slot) ==
    [i \in 1..commandCallbacks |-> Event("global", type, "observe", slot)]

\* EvalCommand that sends the ACK before the slot's callbacks run
EvalCommandAcksFirst(msgtype, serializedMessage) ==
    IF msgtype \in RegisteredCommands
    THEN LET w == CommandBufferWrite(commandSlots[msgtype], serializedMessage)
             n == notify(w.slot, msgtype, callbacks[msgtype], 1)
         IN  IF ~w.ok
             THEN [Effects(NO_CONTROL_DATA, <<serializeControlMessageType(NO_CONTROL_DATA)>>,
                           <<"lock command", "write", "unlock command", "isnew", "send">>)
                     EXCEPT !.commandSlots = [commandSlots EXCEPT ![msgtype] = w.slot],
                            !.events = <<Event("send", NO_CONTROL_DATA, "send", w.slot)>>]
             ELSE [Effects(msgtype, <<serializeControlMessageType(msgtype)>>,
                           <<"lock command", "write", "unlock command", "isnew", "send",
                             "notify", "notifyCommandCallbacks">>)
                     EXCEPT !.commandSlots = [commandSlots EXCEPT ![msgtype] = n.slot],
                            !.events = <<Event("send", msgtype, "send", w.slot)>>
                                         \o n.events
                                         \o notifyCommandCallbacks(msgtype, n.slot)]
    ELSE Effects(msgtype, <<serializeControlMessageType(NO_CONTROL_DATA)>>, <<"send">>)

\* EvalCommand that forgets the global callbacks
EvalCommandSkipsGlobalCallbacks(msgtype, serializedMessage) ==
    IF msgtype \in RegisteredCommands
    THEN LET w == CommandBufferWrite(commandSlots[msgtype], serializedMessage)
             n == notify(w.slot, msgtype, callbacks[msgtype], 1)
         IN  IF ~w.ok
             THEN [Effects(NO_CONTROL_DATA, <<serializeControlMessageType(NO_CONTROL_DATA)>>,
                           <<"write", "send">>)
                     EXCEPT !.commandSlots = [commandSlots EXCEPT ![msgtype] = w.slot],
                            !.events = <<Event("send", NO_CONTROL_DATA, "send", w.slot)>>]
             ELSE [Effects(msgtype, <<serializeControlMessageType(msgtype)>>,
                           <<"write", "notify", "send">>)
                     EXCEPT !.commandSlots = [commandSlots EXCEPT ![msgtype] = n.slot],
                            !.events = n.events \o <<Event("send", msgtype, "send", n.slot)>>]
    ELSE Effects(msgtype, <<serializeControlMessageType(NO_CONTROL_DATA)>>, <<"send">>)

\* EvalCommand that acknowledges a kind without a slot like a command
EvalCommandAcksUnknown(msgtype, serializedMessage) ==
    IF msgtype \in RegisteredCommands
    THEN LET w == CommandBufferWrite(commandSlots[msgtype], serializedMessage)
             slots == [commandSlots EXCEPT ![msgtype] = w.slot]
         IN  IF ~w.ok
             THEN [Effects(NO_CONTROL_DATA, <<serializeControlMessageType(NO_CONTROL_DATA)>>,
                           <<"write", "send">>)
                     EXCEPT !.commandSlots = slots]
             ELSE [Effects(msgtype, <<serializeControlMessageType(msgtype)>>,
                           <<"write", "notify", "send", "notifyCommandCallbacks">>)
                     EXCEPT !.commandSlots = slots]
    ELSE Effects(msgtype, <<serializeControlMessageType(msgtype)>>, <<"send">>)

\* default: a registered command is written into its slot; commandbuffers[msgtype]
\* is null for every other kind
EvalCommand(msgtype, serializedMessage) ==
    IF msgtype \in RegisteredCommands
    THEN LET w == CommandBufferWrite(commandSlots[msgtype], serializedMessage)
             n == notify(w.slot, msgtype, callbacks[msgtype], 1)
         IN  IF ~w.ok
             THEN [Effects(NO_CONTROL_DATA, <<serializeControlMessageType(NO_CONTROL_DATA)>>,
                           <<"lock command", "write", "unlock command", "isnew", "send">>)
                     EXCEPT !.commandSlots = [commandSlots EXCEPT ![msgtype] = w.slot],
                            !.events = <<Event("send", NO_CONTROL_DATA, "send", w.slot)>>]
             ELSE [Effects(msgtype, <<serializeControlMessageType(msgtype)>>,
                           <<"lock command", "write", "unlock command", "isnew", "notify", "send",
                             "notifyCommandCallbacks">>)
                     EXCEPT !.commandSlots = [commandSlots EXCEPT ![msgtype] = n.slot],
                            !.events = n.events
                                         \o <<Event("send", msgtype, "send", n.slot)>>
                                         \o notifyCommandCallbacks(msgtype, n.slot)]
    ELSE Effects(msgtype, <<serializeControlMessageType(NO_CONTROL_DATA)>>, <<"send">>)

\* the switch of evaluateRequest, for a request of two bytes or more
evaluateRequest(request, fs) ==
    LET msgtype == RequestType(request)
        serializedMessage == RequestPayload(request)
    IN  CASE msgtype = TELEMETRY_REQUEST -> EvalTelemetryRequest(serializedMessage)
          [] msgtype = MAP_REQUEST -> EvalMapRequest(serializedMessage)
          [] msgtype = LOG_LEVEL_SELECT -> EvalLogLevelSelect(serializedMessage)
          [] msgtype = PERMISSION -> EvalPermission(serializedMessage)
          [] msgtype = FILE_REQUEST -> EvalFileRequest(serializedMessage, fs)
          [] OTHER -> EvalCommand(msgtype, serializedMessage)

\* uint32_t bytes minus sizeof(uint16_t): the operands are converted to size_t
\* and the difference wraps; its low 32 bits, as two 16-bit halves (the
\* conversion to int drops the higher bits of a 64-bit size_t)
SubSizeT(bytes, n) ==
    [lo |-> (bytes - n) % 65536,
     hi |-> ((bytes \div 65536) - (IF bytes % 65536 < n THEN 1 ELSE 0)) % 65536]

\* the conversion of the low 32 bits to int (two's complement)
ToInt(w) == IF w.hi >= 32768 THEN (w.hi - 65536) * 65536 + w.lo ELSE w.hi * 65536 + w.lo

\* the steps of sendTelemetry with a transport: buffers->lockedAccess() is a
\* temporary of the pushData statement, so the exclusion of the telemetry
\* buffer ends with that statement, before telemetryTransport->send
StoreOnly == <<"lock buffers", "pushData", "unlock buffers">>
StoreThenSend == StoreOnly \o <<"send">>

\* sendTelemetry that returns what the transport returned
sendTelemetryReturnsBytes(bufs, protodata, type, requestOnly, sendOk) ==
    IF telemetryTransport
    THEN LET buf == WriteU16(type) \o SerializeToString(protodata)
             stored == [bufs EXCEPT ![type] = pushData(@, protodata)]
             bytes == IF sendOk THEN Len(buf) ELSE 0
         IN  IF ~requestOnly
             THEN [buffers |-> stored, sent |-> <<buf>>, bytes |-> bytes, ret |-> bytes,
                   trace |-> StoreThenSend]
             ELSE [buffers |-> stored, sent |-> <<>>, bytes |-> 0, ret |-> Len(buf),
                   trace |-> StoreOnly]
    ELSE [buffers |-> bufs, sent |-> <<>>, bytes |-> 0, ret |-> 0, trace |-> <<>>]

\* sendTelemetry that keeps the value for requests only when the send succeeded
sendTelemetryStoreOnSuccess(bufs, protodata, type, requestOnly, sendOk) ==
    IF telemetryTransport
    THEN LET buf == WriteU16(type) \o SerializeToString(protodata)
             stored == IF sendOk THEN [bufs EXCEPT ![type] = pushData(@, protodata)] ELSE bufs
             bytes == IF sendOk THEN Len(buf) ELSE 0
         IN  IF ~requestOnly
             THEN [buffers |-> stored, sent |-> <<buf>>, bytes |-> bytes,
                   ret |-> ToInt(SubSizeT(bytes, 2)),
                   trace |-> StoreThenSend]
             ELSE [buffers |-> stored, sent |-> <<>>, bytes |-> 0, ret |-> Len(buf),
                   trace |-> StoreOnly]
    ELSE [buffers |-> bufs, sent |-> <<>>, bytes |-> 0, ret |-> 0, trace |-> <<>>]

\* sendTelemetry that leaves the slot alone when asked to keep the value for
\* requests only
sendTelemetryRequestOnlySkipsStore(bufs, protodata, type, requestOnly, sendOk) ==
    IF telemetryTransport
    THEN LET buf == WriteU16(type) \o SerializeToString(protodata)
             stored == [bufs EXCEPT ![type] = pushData(@, protodata)]
             bytes == IF sendOk THEN Len(buf) ELSE 0
         IN  IF ~requestOnly
             THEN [buffers |-> stored, sent |-> <<buf>>, bytes |-> bytes,
                   ret |-> ToInt(SubSizeT(bytes, 2)),
                   trace |-> StoreThenSend]
             ELSE [buffers |-> bufs, sent |-> <<>>, bytes |-> 0, ret |-> Len(buf),
                   trace |-> StoreOnly]
    ELSE [buffers |-> bufs, sent |-> <<>>, bytes |-> 0, ret |-> 0, trace |-> <<>>]

(***************************************************************************)
(* ControlledRobot::sendTelemetry                                          *)
(*                                                                         *)
(* sendOk is the answer of the telemetry transport: its send returns the   *)
(* number of bytes, or 0 when it fails.  The result is the buffers, the    *)
(* blobs handed to telemetryTransport->send and the int returned.          *)
(***************************************************************************)
sendTelemetry(bufs, protodata, type, requestOnly, sendOk) ==
    IF telemetryTransport
    THEN LET buf == WriteU16(type) \o SerializeToString(protodata)
             stored == [bufs EXCEPT ![type] = pushData(@, protodata)]
             bytes == IF sendOk THEN Len(buf) ELSE 0
         IN  IF ~requestOnly
             THEN [buffers |-> stored, sent |-> <<buf>>, bytes |-> bytes,
                   ret |-> ToInt(SubSizeT(bytes, 2)),
                   trace |-> StoreThenSend]
             ELSE [buffers |-> stored, sent |-> <<>>, bytes |-> 0, ret |-> Len(buf),
                   trace |-> StoreOnly]
    ELSE [buffers |-> bufs, sent |-> <<>>, bytes |-> 0, ret |-> 0, trace |-> <<>>]

\* the test of setLogMessage with the level itself left out
LogGateBelowLevel(lvl, level) == lvl < level \/ lvl >= CUSTOM

\* the test of setLogMessage
LogGate(lvl, level) == lvl <= level \/ lvl >= CUSTOM

(***************************************************************************)
(* The older variant, interaction::ControlledRobot                         *)
(* (src/src/ControlledRobot.cpp): two command values and the current pose  *)
(***************************************************************************)
NO_DATA == 0
TARGET_POSE == 3

\* ControlledRobot(commandTransport, telemetryTransport); request, ret and
\* sends describe the last evaluateRequest
NewOldRobot ==
    [targetPose |-> Default, twistCommand |-> Default, currentPose |-> Default,
     handled |-> FALSE, request |-> <<>>, ret |-> NO_DATA, sends |-> <<>>]

serializeCurrentPose(currentPose) ==
    WriteU16(CURRENT_POSE) \o SerializeToString(currentPose)

\* evaluateRequest of the older variant, for a request of two bytes or more
OldEvaluateRequest(robot, request) ==
    LET msgtype == RequestType(request)
        serializedMessage == RequestPayload(request)
    IN  CASE msgtype = CURRENT_POSE ->
               [robot EXCEPT !.ret = CURRENT_POSE,
                             !.sends = <<serializeCurrentPose(robot.currentPose)>>]
          [] msgtype = TARGET_POSE ->
               [robot EXCEPT !.targetPose = ParseFromString(serializedMessage).val,
                             !.ret = TARGET_POSE,
                             !.sends = <<serializeControlMessageType(TARGET_POSE)>>]
          [] msgtype = TWIST_COMMAND ->
               [robot EXCEPT !.twistCommand = ParseFromString(serializedMessage).val,
                             !.ret = TWIST_COMMAND,
                             !.sends = <<serializeControlMessageType(TWIST_COMMAND)>>]
          [] OTHER ->
               [robot EXCEPT !.ret = msgtype,
                             !.sends = <<serializeControlMessageType(NO_DATA)>>]

(***************************************************************************)
(* Inputs                                                                  *)
(***************************************************************************)
\* an inbound blob; asked is the map id the controller meant (map requests only)
In(blob) == [blob |-> blob, asked |-> -1]

\* payloads that do not parse: a truncated field, a field followed by an invalid tag
BadPayloads == { <<FieldTag(1)>>, <<FieldTag(1), 1, 7>> }
CommandPayloads == { SerializeToString(Msg(a, 0)) : a \in Values } \cup BadPayloads

CommandInputs == { In(Blob(k, p)) : k \in UserCommands, p \in CommandPayloads }
HeartbeatInputs ==
    { In(Blob(HEARTBEAT, SerializeToString(Msg(d, 0)))) : d \in 1..MaxVal }
        \cup { In(Blob(HEARTBEAT, <<FieldTag(1)>>)) }
PermissionInputs ==
    { In(Blob(PERMISSION, SerializeToString(Msg(u, g)))) : u \in Uids, g \in {0, 1} }
TelemetryRequestInputs == { In(Blob(TELEMETRY_REQUEST, WriteU16(t))) : t \in TelemetryKinds }
MapRequestInputs ==
    { [blob |-> Blob(MAP_REQUEST, WriteU16(m)), asked |-> m] : m \in MapIds }
LogLevels == {0, 3, CUSTOM - 1, CUSTOM + 1}
LogLevelInputs == { In(Blob(LOG_LEVEL_SELECT, WriteU16(n))) : n \in LogLevels }
FileRequestInputs ==
    { In(Blob(FILE_REQUEST, SerializeToString(Msg(i, c)))) : i \in 1..3, c \in {0, 1} }
UnknownInputs ==
    { In(Blob(UNKNOWN_KIND, <<>>)), In(Blob(UNKNOWN_KIND, SerializeToString(Msg(1, 0)))),
      In(Blob(NO_CONTROL_DATA, <<>>)) }
ShortInputs == { In(<<>>), In(<<TWIST_COMMAND>>) }

FramedInputs ==
    CommandInputs \cup HeartbeatInputs \cup PermissionInputs \cup TelemetryRequestInputs
        \cup MapRequestInputs \cup LogLevelInputs \cup FileRequestInputs \cup UnknownInputs
AllInputs == FramedInputs \cup ShortInputs

(***************************************************************************)
(* Initial state: ControlledRobot::ControlledRobot                         *)
(***************************************************************************)
NoEval == [request |-> <<>>, asked |-> -1, handled |-> FALSE, threw |-> FALSE,
           ret |-> 0, sends |-> <<>>, trace |-> <<>>, caught |-> FALSE,
           before |-> <<>>, fs |-> NoFs, events |-> <<>>,
           registered |-> <<>>, globals |-> 0]
NoCall == [op |-> "none", kind |-> 0, arg |-> Default, ret |-> 0, sent |-> <<>>,
           value |-> Default, future |-> "none", level |-> 0, bytes |-> 0, trace |-> <<>>,
           before |-> [attemptOk |-> FALSE, okWrite |-> FALSE, decoded |-> Default]]

NoFrame == [stage |-> "none", by |-> "none", kind |-> 0, payload |-> <<>>, blob |-> <<>>,
            type |-> 0, serializedMessage |-> <<>>]

\* no thread is inside CommandBuffer::read / inside sendTelemetry
NoReader == [pc |-> "idle", kind |-> 0, oldval |-> FALSE, target |-> Default,
             before |-> [attemptOk |-> FALSE, okWrite |-> FALSE, decoded |-> Default]]
Pushers == {1, 2}
NoPusher == [pc |-> "idle", protodata |-> Default]

InitHist ==
    [okWrite |-> [k \in WrittenCommands |-> FALSE],
     owed |-> [k \in WrittenCommands |-> FALSE],
     attemptOk |-> [k \in WrittenCommands |-> FALSE],
     decoded |-> [k \in WrittenCommands |-> Default],
     pushed |-> [t \in TelemetryKinds |-> <<>>],
     mapSet |-> [m \in MapIds |-> <<>>],
     requested |-> [u \in Uids |-> FALSE],
     answered |-> [u \in Uids |-> FALSE],
     granted |-> [u \in Uids |-> FALSE],
     replies |-> [u \in Uids |-> 0],
     firstGranted |-> [u \in Uids |-> FALSE],
     msgSeen |-> FALSE,
     expiredSinceMsg |-> FALSE,
     expiryCalls |-> 0,
     elapsed |-> 0,
     hbStart |-> -1,
     hbTimeout |-> 0,
     cbAtStart |-> FALSE,
     msgAfterHb |-> FALSE,
     lateUpdates |-> 0,
     unanswered |-> 0]

InitWith(transports, zlibs, fileLists) ==
    /\ telemetryTransport \in transports
    /\ ZLIB_FOUND \in zlibs
    /\ files \in fileLists
    /\ pc = "idle"
    /\ queued = 0
    /\ lastEval = NoEval
    /\ commandSlots = [k \in RegisteredCommands |-> NewCommandBuffer]
    /\ buffers = [t \in TelemetryKinds |-> <<>>]
    /\ mapBuffer = [size |-> 0, data |-> [m \in MapIds |-> <<>>]]
    /\ logLevel = CUSTOM - 1
    /\ pendingPermissionRequests = [u \in Uids |-> NoPromise]
    /\ heartbeatValues = Default
    /\ heartbeatTimer = NewTimer
    /\ heartbeatAllowedLatency = 1
    /\ heartbeatExpiredCallback = FALSE
    /\ connected = FALSE
    /\ now = 0
    /\ lastCall = NoCall
    /\ fault = "none"
    /\ hist = InitHist
    /\ oldRobot = NewOldRobot
    /\ frame = NoFrame
    /\ callbacks = [k \in RegisteredCommands |-> <<>>]
    /\ commandCallbacks = 0
    /\ reader = NoReader
    /\ writer = <<>>
    /\ pushers = [t \in Pushers |-> NoPusher]
    /\ lastSent = <<>>

Init == InitWith(BOOLEAN, BOOLEAN, {<<>>, FileDefs})

(***************************************************************************)
(* History kept for the properties                                         *)
(***************************************************************************)
\* after evaluateRequest handled `request` and sent `sends`; unanswered counts
\* the blobs received minus the blobs sent (kept within -2..2)
HistAfterEval(h, request, sends) ==
    LET msgtype == RequestType(request)
        parsed == ParseFromString(RequestPayload(request))
        balance == h.unanswered + 1 - Len(sends)
        h1 == [h EXCEPT !.msgSeen = TRUE, !.expiredSinceMsg = FALSE,
                        !.msgAfterHb = TRUE,
                        !.unanswered = IF balance > 2 THEN 2
                                       ELSE IF balance < -2 THEN -2 ELSE balance]
    IN  IF msgtype \in WrittenCommands
        THEN [h1 EXCEPT !.okWrite[msgtype] = IF parsed.ok THEN TRUE ELSE @,
                        !.attemptOk[msgtype] = parsed.ok,
                        !.decoded[msgtype] = IF parsed.ok THEN parsed.val ELSE @]
        ELSE IF msgtype = PERMISSION /\ parsed.val.f1 \in Uids
        THEN LET u == parsed.val.f1
                 h2 == [h1 EXCEPT !.replies[u] = IF @ < 2 THEN @ + 1 ELSE @,
                                  !.firstGranted[u] = IF h.replies[u] = 0
                                                      THEN parsed.val.f2 # 0 ELSE @]
             IN
             IF h.requested[u] /\ ~h.answered[u]
             THEN [h2 EXCEPT !.answered[u] = TRUE, !.granted[u] = (parsed.val.f2 # 0)]
             ELSE h2
        ELSE h1

\* what the history says about the thing an inbound request asks for: the last
\* push of the telemetry kind, the last map set for the id
HistBeforeEval(h, in) ==
    LET msgtype == RequestType(in.blob)
        payload == RequestPayload(in.blob)
    IN  IF msgtype = TELEMETRY_REQUEST /\ Len(payload) >= 2
            /\ ReadU16(payload) \in TelemetryKinds
        THEN h.pushed[ReadU16(payload)]
        ELSE IF msgtype = MAP_REQUEST /\ in.asked \in MapIds
        THEN h.mapSet[in.asked]
        ELSE <<>>

\* after a read of the slot of kind k
HistAfterRead(h, k) == [h EXCEPT !.okWrite[k] = FALSE, !.attemptOk[k] = FALSE]

\* after update() looked at the heartbeat slot at time t: a fresh heartbeat of
\* duration D opens a new supervision period that ends at t + D + latency;
\* lateUpdates counts the updates that ran after the end of the period (up to 2)
HistAfterHeartbeat(h, fresh, latency, callback, t) ==
    LET h1 == IF fresh
              THEN [h EXCEPT !.expiryCalls = 0, !.hbStart = t,
                             !.hbTimeout = h.decoded[HEARTBEAT].f1 + latency,
                             !.cbAtStart = callback, !.msgAfterHb = FALSE,
                             !.lateUpdates = 0]
              ELSE h
    IN  IF h1.hbStart >= 0 /\ t - h1.hbStart > h1.hbTimeout /\ h1.lateUpdates < 2
        THEN [h1 EXCEPT !.lateUpdates = @ + 1]
        ELSE h1

(***************************************************************************)
(* The update thread: ControlledRobot::update                              *)
(***************************************************************************)
\* the driver calls update()
UpdateBegin ==
    /\ fault = "none"
    /\ pc = "idle"
    /\ pc' = "recv"
    /\ UNCHANGED <<config, registry, threads, frame, oldRobot, queued, lastEval, commandSlots, buffers, mapBuffer, logLevel,
                   pendingPermissionRequests, heartbeatValues, heartbeatTimer,
                   heartbeatAllowedLatency, heartbeatExpiredCallback, connected, now,
                   lastCall, fault, hist>>

\* receiveRequest() gets a framed blob and evaluates it; the loop of update goes
\* on while the result differs from NO_CONTROL_DATA
ReceiveRequest(in, fs) ==
    /\ fault = "none"
    /\ pc = "recv"
    /\ queued > 0
    /\ Len(in.blob) >= 2
    /\ queued' = queued - 1
    /\ LET e == evaluateRequest(in.blob, fs) IN
        /\ lastEval' = [request |-> in.blob, asked |-> in.asked, handled |-> TRUE,
                        threw |-> FALSE, ret |-> e.ret, sends |-> e.sends,
                        trace |-> <<"receive">> \o e.trace, caught |-> e.caught,
                        before |-> HistBeforeEval(hist, in), fs |-> fs,
                        events |-> e.events,
                        registered |-> IF RequestType(in.blob) \in RegisteredCommands
                                       THEN callbacks[RequestType(in.blob)] ELSE <<>>,
                        globals |-> commandCallbacks]
        /\ commandSlots' = e.commandSlots
        /\ logLevel' = e.logLevel
        /\ pendingPermissionRequests' = e.pending
        /\ connected' = IF e.ret # NO_CONTROL_DATA THEN TRUE ELSE connected
        /\ pc' = IF e.ret # NO_CONTROL_DATA THEN "recv" ELSE "finish"
    /\ hist' = HistAfterEval(hist, in.blob, evaluateRequest(in.blob, fs).sends)
    /\ UNCHANGED <<config, registry, threads, frame, oldRobot, buffers, mapBuffer, heartbeatValues, heartbeatTimer,
                   heartbeatAllowedLatency, heartbeatExpiredCallback, now, lastCall, fault>>

\* receiveRequest() gets a blob of fewer than two bytes: request.size() - 2 wraps
\* and the std::string constructor throws std::length_error before any case runs.
\* The exception leaves update(); a caller catches it, or the process terminates.
ReceiveShort(in) ==
    /\ fault = "none"
    /\ pc = "recv"
    /\ queued > 0
    /\ Len(in.blob) < 2
    /\ queued' = queued - 1
    /\ lastEval' = [NoEval EXCEPT !.request = in.blob, !.handled = TRUE, !.threw = TRUE]
    /\ \/ pc' = "idle" /\ fault' = fault
       \/ pc' = pc /\ fault' = "terminated"
    /\ UNCHANGED <<config, registry, threads, frame, oldRobot, commandSlots, buffers, mapBuffer, logLevel,
                   pendingPermissionRequests, heartbeatValues, heartbeatTimer,
                   heartbeatAllowedLatency, heartbeatExpiredCallback, connected, now,
                   lastCall, hist>>

\* ReceiveNoData with a loop that goes on when receive() reports no data
ReceiveNoDataKeepsLooping ==
    /\ fault = "none"
    /\ pc = "recv"
    /\ queued = 0
    /\ pc' = "recv"
    /\ UNCHANGED <<config, registry, threads, frame, oldRobot, queued, lastEval, commandSlots, buffers,
                   mapBuffer, logLevel, pendingPermissionRequests, heartbeatValues,
                   heartbeatTimer, heartbeatAllowedLatency, heartbeatExpiredCallback, connected,
                   now, lastCall, fault, hist>>

\* receive() reports no data: receiveRequest returns NO_CONTROL_DATA, the loop ends
ReceiveNoData ==
    /\ fault = "none"
    /\ pc = "recv"
    /\ queued = 0
    /\ pc' = "finish"
    /\ UNCHANGED <<config, registry, threads, frame, oldRobot, queued, lastEval, commandSlots, buffers, mapBuffer, logLevel,
                   pendingPermissionRequests, heartbeatValues, heartbeatTimer,
                   heartbeatAllowedLatency, heartbeatExpiredCallback, connected, now,
                   lastCall, fault, hist>>

\* UpdateHeartbeat with a timer that stays expired after isExpired() saw it
UpdateHeartbeatLevelTriggered(slot, timer, latency, conn, t) ==
    LET r == CommandBufferRead(slot)
        started == IF r.oldval THEN TimerStart(r.target.f1 + latency, t) ELSE timer
        expired == TimerIsExpired(started, t)
    IN  [slot |-> r.slot,
         values |-> r.target,
         restarted |-> r.oldval,
         timer |-> started,
         connected |-> IF expired THEN FALSE ELSE IF r.oldval THEN TRUE ELSE conn,
         expired |-> expired,
         elapsed |-> TimerElapsed(started, t)]

\* the rest of update(): the heartbeat slot is read, the timer is checked.
\* The result: the slot, heartbeatValues, the timer, connected, and whether the
\* expiry branch ran.
UpdateHeartbeat(slot, timer, latency, conn, t) ==
    LET r == CommandBufferRead(slot)
        started == IF r.oldval THEN TimerStart(r.target.f1 + latency, t) ELSE timer
        expired == TimerIsExpired(started, t)
    IN  [slot |-> r.slot,
         values |-> r.target,
         restarted |-> r.oldval,
         timer |-> TimerAfterIsExpired(started, t),
         connected |-> IF expired THEN FALSE ELSE IF r.oldval THEN TRUE ELSE conn,
         expired |-> expired,
         elapsed |-> TimerElapsed(started, t)]

UpdateFinish ==
    /\ fault = "none"
    /\ pc = "finish"
    /\ LET u == UpdateHeartbeat(commandSlots[HEARTBEAT], heartbeatTimer,
                                heartbeatAllowedLatency, connected, now)
           called == u.expired /\ heartbeatExpiredCallback
           h1 == HistAfterRead(hist, HEARTBEAT)
           h2 == HistAfterHeartbeat(h1, u.restarted, heartbeatAllowedLatency,
                                    heartbeatExpiredCallback, now)
           h3 == IF u.expired THEN [h2 EXCEPT !.expiredSinceMsg = TRUE] ELSE h2
       IN
        /\ commandSlots' = [commandSlots EXCEPT ![HEARTBEAT] = u.slot]
        /\ heartbeatValues' = u.values
        /\ heartbeatTimer' = u.timer
        /\ connected' = u.connected
        /\ hist' = IF called
                   THEN [h3 EXCEPT !.expiryCalls = IF @ < 2 THEN @ + 1 ELSE @,
                                   !.elapsed = u.elapsed]
                   ELSE h3
    /\ pc' = "idle"
    /\ UNCHANGED <<config, registry, threads, frame, oldRobot, queued, lastEval, buffers, mapBuffer, logLevel,
                   pendingPermissionRequests, heartbeatAllowedLatency,
                   heartbeatExpiredCallback, now, lastCall, fault>>

(***************************************************************************)
(* The environment                                                         *)
(***************************************************************************)
\* the controller's blob arrives on the command transport
Deliver ==
    /\ fault = "none"
    /\ queued < MaxQueue
    /\ queued' = queued + 1
    /\ UNCHANGED <<config, registry, threads, frame, oldRobot, pc, lastEval, commandSlots, buffers, mapBuffer, logLevel,
                   pendingPermissionRequests, heartbeatValues, heartbeatTimer,
                   heartbeatAllowedLatency, heartbeatExpiredCallback, connected, now,
                   lastCall, fault, hist>>

\* a tenth of a second passes
Tick ==
    /\ fault = "none"
    /\ now < MaxTime
    /\ now' = now + 1
    /\ UNCHANGED <<config, registry, threads, frame, oldRobot, pc, queued, lastEval, commandSlots, buffers, mapBuffer,
                   logLevel, pendingPermissionRequests, heartbeatValues, heartbeatTimer,
                   heartbeatAllowedLatency, heartbeatExpiredCallback, connected,
                   lastCall, fault, hist>>

(***************************************************************************)
(* The public interface, called from any thread                            *)
(***************************************************************************)
\* getTargetPoseCommand, getTwistCommand: slot.read(command)
GetCommand(k) ==
    /\ fault = "none"
    /\ LET r == CommandBufferRead(commandSlots[k]) IN
        /\ commandSlots' = [commandSlots EXCEPT ![k] = r.slot]
        /\ lastCall' = [NoCall EXCEPT !.op = "getCommand", !.kind = k,
                                      !.ret = IF r.oldval THEN 1 ELSE 0,
                                      !.value = r.target,
                                      !.trace = <<"isnew", "lock command", "copy",
                                                  "unlock command", "isnew">>,
                                      !.before = [attemptOk |-> hist.attemptOk[k],
                                                  okWrite |-> hist.okWrite[k],
                                                  decoded |-> hist.decoded[k]]]
    /\ hist' = HistAfterRead(hist, k)
    /\ UNCHANGED <<config, registry, threads, frame, oldRobot, pc, queued, lastEval, buffers, mapBuffer, logLevel,
                   pendingPermissionRequests, heartbeatValues, heartbeatTimer,
                   heartbeatAllowedLatency, heartbeatExpiredCallback, connected, now,
                   fault>>

(***************************************************************************)
(* CommandBuffer::write and CommandBuffer::read statement by statement:    *)
(* the update thread writes a slot while a user thread reads it.  The      *)
(* value is parsed and copied under command.lockedAccess(), the flag isnew *)
(* is a std::atomic<bool> that is loaded and stored outside of it.         *)
(***************************************************************************)
\* the update thread received a command and runs the first statement of
\* write(): command.lockedAccess()->ParseFromString parses in place
WriteParse(in) ==
    /\ fault = "none"
    /\ pc = "recv"
    /\ queued > 0
    /\ Len(in.blob) >= 2
    /\ RequestType(in.blob) \in WrittenCommands
    /\ queued' = queued - 1
    /\ pc' = "write"
    /\ writer' = in
    /\ commandSlots' = [commandSlots EXCEPT ![RequestType(in.blob)].command =
                            ParseFromString(RequestPayload(in.blob)).val]
    /\ UNCHANGED <<config, registry, reader, pushers, lastSent, frame, oldRobot, lastEval,
                   buffers, mapBuffer, logLevel, pendingPermissionRequests, heartbeatValues,
                   heartbeatTimer, heartbeatAllowedLatency, heartbeatExpiredCallback,
                   connected, now, lastCall, fault, hist>>

\* the rest of write() and of evaluateRequest: isnew.store, notify(), the reply
\* and notifyCommandCallbacks; the loop of update goes on as in ReceiveRequest
WriteStore ==
    /\ fault = "none"
    /\ pc = "write"
    /\ LET e == evaluateRequest(writer.blob, NoFs)
           k == RequestType(writer.blob)
       IN
        /\ lastEval' = [request |-> writer.blob, asked |-> writer.asked, handled |-> TRUE,
                        threw |-> FALSE, ret |-> e.ret, sends |-> e.sends,
                        trace |-> <<"receive">> \o e.trace, caught |-> e.caught,
                        before |-> <<>>, fs |-> NoFs, events |-> e.events,
                        registered |-> callbacks[k], globals |-> commandCallbacks]
        /\ commandSlots' = e.commandSlots
        /\ connected' = IF e.ret # NO_CONTROL_DATA THEN TRUE ELSE connected
        /\ pc' = IF e.ret # NO_CONTROL_DATA THEN "recv" ELSE "finish"
        /\ hist' = [HistAfterEval(hist, writer.blob, e.sends)
                      EXCEPT !.owed[k] = (e.ret # NO_CONTROL_DATA)]
    /\ writer' = <<>>
    /\ UNCHANGED <<config, registry, reader, pushers, lastSent, frame, oldRobot, queued,
                   buffers, mapBuffer, logLevel, pendingPermissionRequests, heartbeatValues,
                   heartbeatTimer, heartbeatAllowedLatency, heartbeatExpiredCallback,
                   now, lastCall, fault>>

\* read(), first statement: bool oldval = isnew.load()
ReadLoad(k) ==
    /\ fault = "none"
    /\ reader.pc = "idle"
    /\ reader' = [NoReader EXCEPT !.pc = "loaded", !.kind = k,
                                  !.oldval = commandSlots[k].isnew]
    /\ UNCHANGED <<config, registry, writer, pushers, lastSent, frame, oldRobot, pc, queued,
                   lastEval, commandSlots, buffers, mapBuffer, logLevel,
                   pendingPermissionRequests, heartbeatValues, heartbeatTimer,
                   heartbeatAllowedLatency, heartbeatExpiredCallback, connected, now,
                   lastCall, fault, hist>>

\* read(), second statement: *target = command.lockedAccess().get(); before is
\* what the writes completed so far were
ReadCopy ==
    /\ fault = "none"
    /\ reader.pc = "loaded"
    /\ reader' = [reader EXCEPT !.pc = "copied",
                                !.target = commandSlots[reader.kind].command,
                                !.before = [attemptOk |-> hist.attemptOk[reader.kind],
                                            okWrite |-> hist.okWrite[reader.kind],
                                            decoded |-> hist.decoded[reader.kind]]]
    /\ UNCHANGED <<config, registry, writer, pushers, lastSent, frame, oldRobot, pc, queued,
                   lastEval, commandSlots, buffers, mapBuffer, logLevel,
                   pendingPermissionRequests, heartbeatValues, heartbeatTimer,
                   heartbeatAllowedLatency, heartbeatExpiredCallback, connected, now,
                   lastCall, fault, hist>>

\* read(), the rest: isnew.store(false); return oldval
ReadStore ==
    /\ fault = "none"
    /\ reader.pc = "copied"
    /\ commandSlots' = [commandSlots EXCEPT ![reader.kind].isnew = FALSE]
    /\ lastCall' = [NoCall EXCEPT !.op = "getCommand", !.kind = reader.kind,
                                  !.ret = IF reader.oldval THEN 1 ELSE 0,
                                  !.value = reader.target,
                                  !.trace = <<"isnew", "lock command", "copy",
                                              "unlock command", "isnew">>,
                                  !.before = reader.before]
    /\ hist' = [HistAfterRead(hist, reader.kind)
                  EXCEPT !.owed[reader.kind] = IF reader.oldval THEN FALSE ELSE @]
    /\ reader' = NoReader
    /\ UNCHANGED <<config, registry, writer, pushers, lastSent, frame, oldRobot, pc, queued,
                   lastEval, buffers, mapBuffer, logLevel, pendingPermissionRequests,
                   heartbeatValues, heartbeatTimer, heartbeatAllowedLatency,
                   heartbeatExpiredCallback, connected, now, fault>>

(***************************************************************************)
(* sendTelemetry statement by statement, for user threads that push poses  *)
(* at the same time.  The push into the slot is one step (it runs under    *)
(* buffers->lockedAccess()), telemetryTransport->send is another; the      *)
(* transport accepts every blob here.                                      *)
(***************************************************************************)
\* thread t: the blob is built and RingBufferAccess::pushData stores the value
PushStore(t, v) ==
    /\ fault = "none"
    /\ telemetryTransport
    /\ pushers[t].pc = "idle"
    /\ buffers' = [buffers EXCEPT ![CURRENT_POSE] = pushData(@, Msg(v, 0))]
    /\ pushers' = [pushers EXCEPT ![t] = [pc |-> "stored", protodata |-> Msg(v, 0)]]
    /\ hist' = [hist EXCEPT !.pushed[CURRENT_POSE] = <<Msg(v, 0)>>]
    /\ UNCHANGED <<config, registry, reader, writer, lastSent, frame, oldRobot, pc, queued,
                   lastEval, commandSlots, mapBuffer, logLevel, pendingPermissionRequests,
                   heartbeatValues, heartbeatTimer, heartbeatAllowedLatency,
                   heartbeatExpiredCallback, connected, now, lastCall, fault>>

\* thread t: telemetryTransport->send(buf); return bytes - sizeof(uint16_t)
PushSend(t) ==
    /\ fault = "none"
    /\ pushers[t].pc = "stored"
    /\ LET buf == WriteU16(CURRENT_POSE) \o SerializeToString(pushers[t].protodata) IN
        /\ lastSent' = buf
        /\ lastCall' = [NoCall EXCEPT !.op = "sendTelemetry", !.kind = CURRENT_POSE,
                                      !.arg = pushers[t].protodata,
                                      !.ret = ToInt(SubSizeT(Len(buf), 2)),
                                      !.sent = <<buf>>, !.bytes = Len(buf),
                                      !.trace = StoreThenSend]
    /\ pushers' = [pushers EXCEPT ![t] = NoPusher]
    /\ UNCHANGED <<config, registry, reader, writer, frame, oldRobot, pc, queued, lastEval,
                   commandSlots, buffers, mapBuffer, logLevel, pendingPermissionRequests,
                   heartbeatValues, heartbeatTimer, heartbeatAllowedLatency,
                   heartbeatExpiredCallback, connected, now, fault, hist>>

\* setCurrentPose: sendTelemetry(telemetry, CURRENT_POSE)
SetCurrentPose(v, sendOk) ==
    /\ fault = "none"
    /\ LET st == sendTelemetry(buffers, Msg(v, 0), CURRENT_POSE, FALSE, sendOk) IN
        /\ buffers' = st.buffers
        /\ lastCall' = [NoCall EXCEPT !.op = "sendTelemetry", !.kind = CURRENT_POSE,
                                      !.arg = Msg(v, 0), !.ret = st.ret, !.sent = st.sent,
                                      !.bytes = st.bytes, !.trace = st.trace]
    /\ hist' = [hist EXCEPT !.pushed[CURRENT_POSE] = <<Msg(v, 0)>>]
    /\ UNCHANGED <<config, registry, threads, frame, oldRobot, pc, queued, lastEval, commandSlots, mapBuffer, logLevel,
                   pendingPermissionRequests, heartbeatValues, heartbeatTimer,
                   heartbeatAllowedLatency, heartbeatExpiredCallback, connected, now,
                   fault>>

\* setLogMessage(lvl, message): the message text is field 2
LogLevelArgs == {0, 1, 4, CUSTOM}
SetLogMessage(lvl, sendOk) ==
    /\ fault = "none"
    /\ LET msg == Msg(lvl, 1)
           st == sendTelemetry(buffers, msg, LOG_MESSAGE, FALSE, sendOk)
       IN  IF LogGate(lvl, logLevel)
           THEN /\ buffers' = st.buffers
                /\ lastCall' = [NoCall EXCEPT !.op = "setLogMessage", !.kind = LOG_MESSAGE,
                                              !.arg = msg, !.ret = st.ret, !.sent = st.sent,
                                              !.level = logLevel, !.trace = st.trace]
                /\ hist' = [hist EXCEPT !.pushed[LOG_MESSAGE] = <<msg>>]
           ELSE /\ buffers' = buffers
                /\ lastCall' = [NoCall EXCEPT !.op = "setLogMessage", !.kind = LOG_MESSAGE,
                                              !.arg = msg, !.ret = -1, !.level = logLevel]
                /\ hist' = hist
    /\ UNCHANGED <<config, registry, threads, frame, oldRobot, pc, queued, lastEval, commandSlots, mapBuffer, logLevel,
                   pendingPermissionRequests, heartbeatValues, heartbeatTimer,
                   heartbeatAllowedLatency, heartbeatExpiredCallback, connected, now,
                   fault>>

\* initMapsDefinition: sendTelemetry(telemetry, MAPS_DEFINITION, true); the
\* transport is not asked, so its answer does not matter
InitMapsDefinition(v) ==
    /\ fault = "none"
    /\ LET st == sendTelemetry(buffers, Msg(v, 0), MAPS_DEFINITION, TRUE, TRUE) IN
        /\ buffers' = st.buffers
        /\ lastCall' = [NoCall EXCEPT !.op = "initMapsDefinition", !.kind = MAPS_DEFINITION,
                                      !.arg = Msg(v, 0), !.ret = st.ret, !.sent = st.sent,
                                      !.bytes = st.bytes, !.trace = st.trace]
    /\ hist' = [hist EXCEPT !.pushed[MAPS_DEFINITION] = <<Msg(v, 0)>>]
    /\ UNCHANGED <<config, registry, threads, frame, oldRobot, pc, queued, lastEval, commandSlots, mapBuffer, logLevel,
                   pendingPermissionRequests, heartbeatValues, heartbeatTimer,
                   heartbeatAllowedLatency, heartbeatExpiredCallback, connected, now,
                   fault>>

\* setMap(map, mapId): the buffer after the call
setMap(mb, map, mapId) ==
    [initBufferID(mb, mapId) EXCEPT !.data[mapId] = pushData(@, map)]

SetMap(map, mapId) ==
    /\ fault = "none"
    /\ mapBuffer' = setMap(mapBuffer, map, mapId)
    /\ lastCall' = [NoCall EXCEPT !.op = "setMap", !.kind = mapId, !.ret = 1,
                                  !.trace = <<"lock mapBuffer", "pushData", "unlock mapBuffer">>]
    /\ hist' = [hist EXCEPT !.mapSet[mapId] = <<map>>]
    /\ UNCHANGED <<config, registry, threads, frame, oldRobot, pc, queued, lastEval, commandSlots, buffers, logLevel,
                   pendingPermissionRequests, heartbeatValues, heartbeatTimer,
                   heartbeatAllowedLatency, heartbeatExpiredCallback, connected, now,
                   fault>>

\* requestPermission(permissionrequest): the promise of the uid is taken from the
\* map (created when absent), the request is sent, the future is taken from the
\* promise.  When get_future throws (the future of this promise was taken
\* before) the function ends without a return statement: the caller gets an
\* indeterminate future, or the process dies.
RequestPermission(u, sendOk) ==
    /\ fault = "none"
    /\ LET promise == MapEntry(pendingPermissionRequests, u)
           st == sendTelemetry(buffers, Msg(u, 0), PERMISSION_REQUEST, FALSE, sendOk)
           g == PromiseGetFuture(promise)
       IN
        /\ buffers' = st.buffers
        /\ pendingPermissionRequests' = [pendingPermissionRequests EXCEPT ![u] = g.promise]
        /\ IF ~g.threw
           THEN /\ lastCall' = [NoCall EXCEPT !.op = "requestPermission", !.kind = u,
                                              !.sent = st.sent, !.future = "valid",
                                              !.trace = st.trace]
                /\ hist' = [hist EXCEPT !.pushed[PERMISSION_REQUEST] = <<Msg(u, 0)>>,
                                        !.requested[u] = TRUE, !.answered[u] = FALSE]
                /\ fault' = fault
           ELSE /\ lastCall' = [NoCall EXCEPT !.op = "requestPermission", !.kind = u,
                                              !.sent = st.sent, !.future = "indeterminate",
                                              !.trace = st.trace]
                /\ hist' = [hist EXCEPT !.pushed[PERMISSION_REQUEST] = <<Msg(u, 0)>>]
                /\ fault' \in {"none", "terminated"}
    /\ UNCHANGED <<config, registry, threads, frame, oldRobot, pc, queued, lastEval, commandSlots, mapBuffer, logLevel,
                   heartbeatValues, heartbeatTimer, heartbeatAllowedLatency,
                   heartbeatExpiredCallback, connected, now>>

\* setupHeartbeatCallback(allowedLatency, callback)
SetupHeartbeatCallback(allowedLatency) ==
    /\ fault = "none"
    /\ heartbeatAllowedLatency' = allowedLatency
    /\ heartbeatExpiredCallback' = TRUE
    /\ lastCall' = [NoCall EXCEPT !.op = "setupHeartbeatCallback", !.kind = allowedLatency]
    /\ UNCHANGED <<config, registry, threads, frame, oldRobot, pc, queued, lastEval, commandSlots, buffers, mapBuffer,
                   logLevel, pendingPermissionRequests, heartbeatValues, heartbeatTimer,
                   connected, now, fault, hist>>

\* addCommandReceivedCallback(type, function): commandbuffers[type]->callbacks
\* gets one more entry.  The vector is not protected: user code registers
\* during setup, before the update thread evaluates its first blob.
AddCommandReceivedCallback(type, does) ==
    /\ fault = "none"
    /\ pc = "idle"
    /\ lastEval = NoEval
    /\ type \in RegisteredCommands
    /\ Len(callbacks[type]) < MaxCallbacks
    /\ callbacks' = [callbacks EXCEPT ![type] = Append(@, does)]
    /\ UNCHANGED <<config, threads, commandCallbacks, frame, oldRobot, pc, queued, lastEval, commandSlots,
                   buffers, mapBuffer, logLevel, pendingPermissionRequests, heartbeatValues,
                   heartbeatTimer, heartbeatAllowedLatency, heartbeatExpiredCallback,
                   connected, now, lastCall, fault, hist>>

\* addCommandReceivedCallback(function): commandCallbacks.push_back(function)
AddGlobalCommandReceivedCallback ==
    /\ fault = "none"
    /\ pc = "idle"
    /\ lastEval = NoEval
    /\ commandCallbacks < MaxCallbacks
    /\ commandCallbacks' = commandCallbacks + 1
    /\ UNCHANGED <<config, threads, callbacks, frame, oldRobot, pc, queued, lastEval, commandSlots,
                   buffers, mapBuffer, logLevel, pendingPermissionRequests, heartbeatValues,
                   heartbeatTimer, heartbeatAllowedLatency, heartbeatExpiredCallback,
                   connected, now, lastCall, fault, hist>>

(***************************************************************************)
(* Framing on its own: a kind is written in front of a payload as          *)
(* addControlMessageType and sendTelemetry do, and the blob is split as    *)
(* evaluateRequest does                                                    *)
(***************************************************************************)
FrameKinds == {0, 1, 255, 256, 65535}
FrameBytes == {0, 1, 255}
RECURSIVE PayloadsUpTo(_)
PayloadsUpTo(n) ==
    IF n = 0 THEN {<<>>}
    ELSE PayloadsUpTo(n - 1)
             \cup { Append(b, x) : b \in { c \in PayloadsUpTo(n - 1) : Len(c) = n - 1 },
                                   x \in FrameBytes }

\* serializeControlMessageType(kind) followed by the payload
TagControl(kind, payload) ==
    /\ fault = "none"
    /\ frame' = [stage |-> "tagged", by |-> "addControlMessageType", kind |-> kind,
                 payload |-> payload,
                 blob |-> serializeControlMessageType(kind) \o payload,
                 type |-> 0, serializedMessage |-> <<>>]
    /\ UNCHANGED <<config, registry, threads, oldRobot, pc, queued, lastEval, commandSlots, buffers,
                   mapBuffer, logLevel, pendingPermissionRequests, heartbeatValues,
                   heartbeatTimer, heartbeatAllowedLatency, heartbeatExpiredCallback,
                   connected, now, lastCall, fault, hist>>

\* the blob sendTelemetry(protodata, type) hands to the telemetry transport
TagTelemetry(type, protodata) ==
    /\ fault = "none"
    /\ telemetryTransport
    /\ frame' = [stage |-> "tagged", by |-> "sendTelemetry", kind |-> type,
                 payload |-> SerializeToString(protodata),
                 blob |-> sendTelemetry(buffers, protodata, type, FALSE, TRUE).sent[1],
                 type |-> 0, serializedMessage |-> <<>>]
    /\ UNCHANGED <<config, registry, threads, oldRobot, pc, queued, lastEval, commandSlots, buffers,
                   mapBuffer, logLevel, pendingPermissionRequests, heartbeatValues,
                   heartbeatTimer, heartbeatAllowedLatency, heartbeatExpiredCallback,
                   connected, now, lastCall, fault, hist>>

\* the first three lines of evaluateRequest applied to the blob
SplitFrame ==
    /\ fault = "none"
    /\ frame.stage = "tagged"
    /\ frame' = [frame EXCEPT !.stage = "split",
                              !.type = RequestType(frame.blob),
                              !.serializedMessage = RequestPayload(frame.blob)]
    /\ UNCHANGED <<config, registry, threads, oldRobot, pc, queued, lastEval, commandSlots, buffers,
                   mapBuffer, logLevel, pendingPermissionRequests, heartbeatValues,
                   heartbeatTimer, heartbeatAllowedLatency, heartbeatExpiredCallback,
                   connected, now, lastCall, fault, hist>>

(***************************************************************************)
(* The older variant: a blob is received and evaluated                     *)
(***************************************************************************)
OldReceiveRequest(in) ==
    /\ fault = "none"
    /\ Len(in.blob) >= 2
    /\ oldRobot' = [OldEvaluateRequest(oldRobot, in.blob)
                       EXCEPT !.handled = TRUE, !.request = in.blob]
    /\ UNCHANGED <<config, registry, threads, frame, pc, queued, lastEval, commandSlots, buffers, mapBuffer,
                   logLevel, pendingPermissionRequests, heartbeatValues, heartbeatTimer,
                   heartbeatAllowedLatency, heartbeatExpiredCallback, connected, now,
                   lastCall, fault, hist>>

(***************************************************************************)
(* Specifications                                                          *)
(***************************************************************************)
Receive(inputs) ==
    \E in \in inputs :
        \E fs \in (IF Len(in.blob) >= 2 /\ RequestType(in.blob) = FILE_REQUEST
                   THEN FsOutcomes ELSE {NoFs}) : ReceiveRequest(in, fs)

Update == UpdateBegin \/ ReceiveNoData \/ UpdateFinish

TwistInputs == { In(Blob(TWIST_COMMAND, p)) : p \in CommandPayloads }
TwistOk == In(Blob(TWIST_COMMAND, SerializeToString(Msg(1, 0))))
TwistBad == In(Blob(TWIST_COMMAND, <<FieldTag(1)>>))

\* one blob of every kind the evaluator tells apart
EveryKindInputs ==
    { TwistOk, TwistBad,
      In(Blob(TARGET_POSE_COMMAND, SerializeToString(Msg(1, 0)))),
      In(Blob(HEARTBEAT, SerializeToString(Msg(1, 0)))),
      In(Blob(PERMISSION, SerializeToString(Msg(1, 1)))),
      In(Blob(TELEMETRY_REQUEST, WriteU16(CURRENT_POSE))),
      [blob |-> Blob(MAP_REQUEST, WriteU16(0)), asked |-> 0],
      In(Blob(LOG_LEVEL_SELECT, WriteU16(3))),
      In(Blob(FILE_REQUEST, SerializeToString(Msg(1, 1)))),
      In(Blob(FILE_REQUEST, SerializeToString(Msg(3, 0)))) }
        \cup UnknownInputs

\* Spec: the update thread alone, fed blobs of every kind
Next ==
    \/ Update
    \/ Deliver
    \/ Receive(EveryKindInputs)
    \/ \E in \in ShortInputs : ReceiveShort(in)

Spec == InitWith({TRUE}, {TRUE}, {FileDefs}) /\ [][Next]_vars

\* SpecCommand: twist commands arrive and are read
NextCommand ==
    \/ Update
    \/ Deliver
    \/ Receive(TwistInputs)
    \/ GetCommand(TWIST_COMMAND)

SpecCommand == InitWith({TRUE}, {TRUE}, {FileDefs}) /\ [][NextCommand]_vars

\* SpecTelemetry: poses are pushed and pulled, with and without a telemetry transport
NextTelemetry ==
    \/ Update
    \/ Deliver
    \/ Receive(TelemetryRequestInputs)
    \/ \E v \in Values, sendOk \in BOOLEAN : SetCurrentPose(v, sendOk)

SpecTelemetry == InitWith(BOOLEAN, {TRUE}, {FileDefs}) /\ [][NextTelemetry]_vars

\* SpecMap: maps are set and requested
NextMap ==
    \/ Update
    \/ Deliver
    \/ Receive(MapRequestInputs)
    \/ \E map \in MapBytes, mapId \in MapIds : SetMap(map, mapId)

SpecMap == InitWith({TRUE}, {TRUE}, {FileDefs}) /\ [][NextMap]_vars

\* SpecHeartbeat: heartbeats and messages of another kind arrive while time passes
NextHeartbeat ==
    \/ Update
    \/ Deliver
    \/ Receive(HeartbeatInputs \cup {In(Blob(UNKNOWN_KIND, <<>>))})
    \/ Tick
    \/ \E allowedLatency \in {0, 1} : SetupHeartbeatCallback(allowedLatency)

SpecHeartbeat == InitWith({TRUE}, {TRUE}, {FileDefs}) /\ [][NextHeartbeat]_vars

\* SpecPermission: permissions are requested and granted or denied
NextPermission ==
    \/ Update
    \/ Deliver
    \/ Receive(PermissionInputs)
    \/ \E u \in Uids, sendOk \in BOOLEAN : RequestPermission(u, sendOk)

SpecPermission == InitWith({TRUE}, {TRUE}, {FileDefs}) /\ [][NextPermission]_vars

\* SpecUnknown: blobs of a kind nobody handles arrive at a robot whose slots,
\* buffers, log level and promises were set, and at a robot of the older variant
UnknownSetupInputs ==
    { TwistOk, In(Blob(LOG_LEVEL_SELECT, WriteU16(3))),
      In(Blob(PERMISSION, SerializeToString(Msg(1, 1)))) }
OldInputs ==
    { In(Blob(UNKNOWN_KIND, <<>>)), In(Blob(TWIST_COMMAND, SerializeToString(Msg(1, 0)))) }

NextUnknown ==
    \/ Update
    \/ Deliver
    \/ Receive(UnknownInputs \cup UnknownSetupInputs)
    \/ SetCurrentPose(1, TRUE)
    \/ SetMap(<<1>>, 0)
    \/ \E in \in OldInputs : OldReceiveRequest(in)

SpecUnknown == InitWith({TRUE}, {TRUE}, {FileDefs}) /\ [][NextUnknown]_vars

\* SpecFile: files and folders are requested, with and without zlib and
\* file definitions, while the filesystem answers or fails
NextFile ==
    \/ Update
    \/ Deliver
    \/ Receive(FileRequestInputs)

SpecFile == InitWith({TRUE}, BOOLEAN, {<<>>, FileDefs}) /\ [][NextFile]_vars

\* SpecFraming: kinds and payloads are framed and split
NextFraming ==
    \/ \E kind \in FrameKinds, payload \in PayloadsUpTo(MaxPayload) : TagControl(kind, payload)
    \/ \E type \in TelemetryKinds, v \in Values : TagTelemetry(type, Msg(v, 0))
    \/ SplitFrame

SpecFraming == InitWith({TRUE}, {TRUE}, {FileDefs}) /\ [][NextFraming]_vars

\* SpecReplies: requests of every replying kind arrive while poses are pushed
\* and a map is set
ReplyInputs ==
    { TwistOk, TwistBad,
      In(Blob(TELEMETRY_REQUEST, WriteU16(CURRENT_POSE))),
      [blob |-> Blob(MAP_REQUEST, WriteU16(0)), asked |-> 0],
      In(Blob(LOG_LEVEL_SELECT, WriteU16(3))),
      In(Blob(FILE_REQUEST, SerializeToString(Msg(2, 0)))),
      In(Blob(FILE_REQUEST, SerializeToString(Msg(3, 0)))) }

NextReplies ==
    \/ Update
    \/ Deliver
    \/ Receive(ReplyInputs)
    \/ \E sendOk \in BOOLEAN : SetCurrentPose(1, sendOk)
    \/ SetMap(<<1>>, 0)

SpecReplies == InitWith({TRUE}, {TRUE}, {FileDefs}) /\ [][NextReplies]_vars

\* SpecLog: log messages are sent while the controller selects the level
NextLog ==
    \/ Update
    \/ Deliver
    \/ Receive(LogLevelInputs)
    \/ \E lvl \in LogLevelArgs, sendOk \in BOOLEAN : SetLogMessage(lvl, sendOk)

SpecLog == InitWith(BOOLEAN, {TRUE}, {FileDefs}) /\ [][NextLog]_vars

\* SpecSetters: the telemetry setters are called in any order (a pose that is
\* sent, a log message behind the level gate, a maps definition kept for
\* requests only) while the controller selects the log level
SetterLogLevelInputs == { In(Blob(LOG_LEVEL_SELECT, WriteU16(n))) : n \in {0, 3} }
NextSetters ==
    \/ Update
    \/ Deliver
    \/ Receive(SetterLogLevelInputs)
    \/ \E v \in Values, sendOk \in BOOLEAN : SetCurrentPose(v, sendOk)
    \/ \E lvl \in LogLevelArgs, sendOk \in BOOLEAN : SetLogMessage(lvl, sendOk)
    \/ \E v \in Values : InitMapsDefinition(v)

SpecSetters == InitWith(BOOLEAN, {TRUE}, {FileDefs}) /\ [][NextSetters]_vars

\* SpecCallbacks: user code registers callbacks for twist commands, for
\* permissions and for every command, then blobs of these kinds arrive
CallbackInputs == { TwistOk, TwistBad, In(Blob(PERMISSION, SerializeToString(Msg(1, 1)))) }
CallbackRegistrations ==
    { <<TWIST_COMMAND, "observe">>, <<TWIST_COMMAND, "read">>, <<PERMISSION, "observe">> }
NextCallbacks ==
    \/ Update
    \/ Deliver
    \/ Receive(CallbackInputs)
    \/ \E r \in CallbackRegistrations : AddCommandReceivedCallback(r[1], r[2])
    \/ AddGlobalCommandReceivedCallback

SpecCallbacks == InitWith({TRUE}, {TRUE}, {FileDefs}) /\ [][NextCallbacks]_vars

\* SpecLocks: the operations that take the exclusion of a buffer (telemetry
\* pushes and pulls, map sets and requests, command writes and reads)
LockInputs ==
    { TwistOk, TwistBad, In(Blob(TELEMETRY_REQUEST, WriteU16(CURRENT_POSE))),
      [blob |-> Blob(MAP_REQUEST, WriteU16(0)), asked |-> 0] }
NextLocks ==
    \/ Update
    \/ Deliver
    \/ Receive(LockInputs)
    \/ \E v \in Values, sendOk \in BOOLEAN : SetCurrentPose(v, sendOk)
    \/ InitMapsDefinition(1)
    \/ SetMap(<<1>>, 0)
    \/ GetCommand(TWIST_COMMAND)

SpecLocks == InitWith({TRUE}, {TRUE}, {FileDefs}) /\ [][NextLocks]_vars

\* SpecRace: the update thread writes the twist slot while a user thread reads it
RaceInputs ==
    { In(Blob(TWIST_COMMAND, SerializeToString(Msg(1, 0)))),
      In(Blob(TWIST_COMMAND, SerializeToString(Msg(2, 0)))),
      In(Blob(TWIST_COMMAND, <<FieldTag(2), 1, 7>>)) }
NextRace ==
    \/ Update
    \/ Deliver
    \/ \E in \in RaceInputs : WriteParse(in)
    \/ WriteStore
    \/ ReadLoad(TWIST_COMMAND)
    \/ ReadCopy
    \/ ReadStore

SpecRace == InitWith({TRUE}, {TRUE}, {FileDefs}) /\ [][NextRace]_vars

\* SpecPush: two user threads push poses while the controller pulls the pose
NextPush ==
    \/ Update
    \/ Deliver
    \/ Receive({In(Blob(TELEMETRY_REQUEST, WriteU16(CURRENT_POSE)))})
    \/ \E t \in Pushers, v \in 1..MaxVal : PushStore(t, v)
    \/ \E t \in Pushers : PushSend(t)

SpecPush == InitWith({TRUE}, {TRUE}, {FileDefs}) /\ [][NextPush]_vars

\* SpecUpdateTerminates: blobs arrive only between two calls of update(), and
\* the thread that is inside update() goes on running: receive() and send()
\* do not block, so each step of the call is taken once it is possible
DeliverBetweenUpdates == pc = "idle" /\ Deliver
TerminationInputs ==
    { TwistOk, TwistBad, In(Blob(HEARTBEAT, SerializeToString(Msg(1, 0)))),
      In(Blob(UNKNOWN_KIND, <<>>)) }
UpdateStep ==
    \/ Receive(TerminationInputs)
    \/ \E in \in ShortInputs : ReceiveShort(in)
    \/ ReceiveNoData
    \/ UpdateFinish
NextUpdateTerminates ==
    \/ UpdateBegin
    \/ DeliverBetweenUpdates
    \/ UpdateStep
    \/ Tick

SpecUpdateTerminates ==
    /\ InitWith({TRUE}, {TRUE}, {FileDefs})
    /\ [][NextUpdateTerminates]_vars
    /\ WF_vars(UpdateStep)

(***************************************************************************)
(* Properties                                                              *)
(***************************************************************************)
\* number of "send" steps in a trace
RECURSIVE Count(_, _)
Count(seq, x) ==
    IF seq = <<>> THEN 0
    ELSE (IF seq[1] = x THEN 1 ELSE 0) + Count(Tail(seq), x)

Framed(request) == Len(request) >= 2

\* C1: every framed blob that receiveRequest obtained was answered by exactly
\* one send on the command transport, made inside its evaluateRequest, so that
\* at every receive all earlier blobs have their reply (replies keep the order
\* of the requests)
C1_OneReplyPerRequest ==
    /\ hist.unanswered = 0
    /\ (lastEval.handled /\ Framed(lastEval.request)) =>
          /\ Len(lastEval.sends) = 1
          /\ Count(lastEval.trace, "send") = 1

\* C1 witness: a twist command that failed to decode got its one reply, after a
\* log level selection and a permission were handled
C1_Witness ==
    /\ lastEval.handled
    /\ Framed(lastEval.request)
    /\ RequestType(lastEval.request) = TWIST_COMMAND
    /\ lastEval.ret = NO_CONTROL_DATA
    /\ lastEval.sends = <<serializeControlMessageType(NO_CONTROL_DATA)>>
    /\ pc = "finish"
    /\ logLevel = 3
    /\ pendingPermissionRequests[1].satisfied

IsTelemetryRequest(e) ==
    /\ e.handled /\ Framed(e.request)
    /\ RequestType(e.request) = TELEMETRY_REQUEST
TelemetryRequested(e) == ReadU16(RequestPayload(e.request))

\* the reply to a TELEMETRY_REQUEST is the kind tag followed by bytes that
\* decode to the last value pushed for the kind, and is empty when no value
\* was pushed
PullMatchesPush(e) ==
    IF e.before = <<>>
    THEN e.sends = << <<>> >>
    ELSE /\ Len(e.sends) = 1
         /\ Len(e.sends[1]) >= 2
         /\ RequestType(e.sends[1]) = TelemetryRequested(e)
         /\ ParseFromString(RequestPayload(e.sends[1])) = [ok |-> TRUE, val |-> e.before[1]]

\* C3 as stated: sendTelemetry(v, t) followed by TELEMETRY_REQUEST(t) is
\* answered with a payload that decodes to v, and with an empty reply when t
\* was never pushed
C3_PullReturnsLastPush ==
    IsTelemetryRequest(lastEval) => PullMatchesPush(lastEval)

\* C3 amended: that holds when a telemetry transport is configured; without
\* one sendTelemetry stores nothing and every TELEMETRY_REQUEST is answered
\* with an empty reply.  The slots hold exactly the last pushes (the request
\* does not consume them).
C3_PullReturnsLastPushIfTransport ==
    /\ \A t \in TelemetryKinds :
          buffers[t] = IF telemetryTransport THEN hist.pushed[t] ELSE <<>>
    /\ IsTelemetryRequest(lastEval) =>
          IF telemetryTransport
          THEN PullMatchesPush(lastEval)
          ELSE lastEval.sends = << <<>> >>

\* C3 witness: the pose pushed last (its send failed) was pulled
C3_Witness ==
    /\ telemetryTransport
    /\ IsTelemetryRequest(lastEval)
    /\ lastCall.op = "sendTelemetry" /\ lastCall.ret = -2
    /\ lastEval.before = <<Msg(MaxVal, 0)>>
    /\ lastEval.sends = << WriteU16(CURRENT_POSE) \o <<FieldTag(1), MaxVal>> >>

\* the last evaluated request was a MAP_REQUEST
IsMapRequest(e) ==
    /\ e.handled /\ Framed(e.request)
    /\ RequestType(e.request) = MAP_REQUEST

\* C4: setMap(bytes, m) followed by MAP_REQUEST(m) is answered with exactly
\* bytes, for every uint32 map id m; a MAP_REQUEST for an id never set is
\* answered with an empty buffer; setMap hands nothing to the telemetry transport
C4_MapRequestReturnsLastSet ==
    /\ IsMapRequest(lastEval) =>
          lastEval.sends = << IF lastEval.before = <<>> THEN <<>> ELSE lastEval.before[1] >>
    /\ lastCall.op = "setMap" => lastCall.sent = <<>>

C6_ConnectedIffNoExpirySinceMessage ==
    pc = "idle" => (connected = (hist.msgSeen /\ ~hist.expiredSinceMsg))

\* the last evaluated request was a PERMISSION
IsPermission(e) ==
    /\ e.handled /\ Framed(e.request)
    /\ RequestType(e.request) = PERMISSION
PermissionOf(e) == ParseFromString(RequestPayload(e.request)).val

\* C7: the future that requestPermission returned for uid u is resolved iff a
\* PERMISSION with uid u was evaluated after the request, and then holds the
\* granted value of that reply
C7_FutureResolvesOnMatchingReply ==
    \A u \in Uids : hist.requested[u] =>
        /\ pendingPermissionRequests[u].satisfied = hist.answered[u]
        /\ hist.answered[u] => pendingPermissionRequests[u].value = hist.granted[u]

\* C8: a PERMISSION for a uid whose promise holds a value already is answered
\* with the PERMISSION tag, the exception of set_value is caught inside the
\* case, and the promise keeps the value of the first PERMISSION of the uid
C8_SecondPermissionDiscarded ==
    /\ \A u \in Uids :
          /\ pendingPermissionRequests[u].satisfied = (hist.replies[u] >= 1)
          /\ hist.replies[u] >= 1 =>
                pendingPermissionRequests[u].value = hist.firstGranted[u]
    /\ IsPermission(lastEval) =>
          /\ ~lastEval.threw
          /\ lastEval.ret = PERMISSION
          /\ lastEval.sends = <<serializeControlMessageType(PERMISSION)>>
          /\ lastEval.caught = (hist.replies[PermissionOf(lastEval).f1] = 2)

\* C8 witness: the future of uid 1 was resolved to true by the first
\* PERMISSION; a second one that denies was discarded
C8_Witness ==
    /\ fault = "none"
    /\ hist.requested[1] /\ hist.answered[1] /\ hist.granted[1]
    /\ hist.replies[1] = 2
    /\ IsPermission(lastEval)
    /\ PermissionOf(lastEval) = Msg(1, 0)
    /\ lastEval.caught
    /\ pendingPermissionRequests[1].value

\* the last evaluated request was a LOG_LEVEL_SELECT
IsLogLevelSelect(e) ==
    /\ e.handled /\ Framed(e.request)
    /\ RequestType(e.request) = LOG_LEVEL_SELECT

\* C9: with a telemetry transport, setLogMessage(lvl, msg) hands a LOG_MESSAGE
\* to it iff lvl <= level or lvl >= 20, and otherwise sends nothing and
\* returns -1; the level is CUSTOM - 1 until a LOG_LEVEL_SELECT is evaluated,
\* and is the 16-bit value of the last LOG_LEVEL_SELECT afterwards, each of
\* which is answered with the LOG_LEVEL_SELECT tag
C9_LogGate ==
    /\ (telemetryTransport /\ lastCall.op = "setLogMessage") =>
          IF lastCall.arg.f1 <= lastCall.level \/ lastCall.arg.f1 >= 20
          THEN lastCall.sent = << WriteU16(LOG_MESSAGE) \o SerializeToString(lastCall.arg) >>
          ELSE lastCall.sent = <<>> /\ lastCall.ret = -1
    /\ ~lastEval.handled => logLevel = CUSTOM - 1
    /\ IsLogLevelSelect(lastEval) =>
          /\ logLevel = ReadU16(RequestPayload(lastEval.request))
          /\ lastEval.sends = <<serializeControlMessageType(LOG_LEVEL_SELECT)>>

\* C9 witness: after LOG_LEVEL_SELECT(3) a message of level 4 was refused
\* with -1
C9_Witness ==
    /\ telemetryTransport
    /\ IsLogLevelSelect(lastEval)
    /\ logLevel = 3
    /\ lastCall.op = "setLogMessage"
    /\ lastCall.level = 3
    /\ lastCall.arg.f1 = 4
    /\ lastCall.ret = -1

\* the kinds evaluateRequest has a case or a slot for
HandledKinds ==
    {TELEMETRY_REQUEST, MAP_REQUEST, LOG_LEVEL_SELECT, PERMISSION, FILE_REQUEST}
        \cup RegisteredCommands
OldHandledKinds == {CURRENT_POSE, TARGET_POSE, TWIST_COMMAND}

\* this step evaluates a blob of a kind that is not handled
UnknownKindStep ==
    /\ pc = "recv" /\ queued' = queued - 1
    /\ lastEval'.handled /\ Framed(lastEval'.request)
    /\ RequestType(lastEval'.request) \notin HandledKinds
OldUnknownKindStep ==
    /\ oldRobot' # oldRobot
    /\ RequestType(oldRobot'.request) \notin OldHandledKinds

\* C10: a blob of a kind that is neither a handled request nor a registered
\* command is answered with the two bytes 00 00, in both variants, and the
\* command slots, the telemetry slots, the map buffer, the log level and the
\* promises (the command values of the older variant) stay as they were
C10_UnknownKindStep ==
    /\ UnknownKindStep =>
          /\ lastEval'.sends = << <<0, 0>> >>
          /\ commandSlots' = commandSlots
          /\ buffers' = buffers
          /\ mapBuffer' = mapBuffer
          /\ logLevel' = logLevel
          /\ pendingPermissionRequests' = pendingPermissionRequests
    /\ OldUnknownKindStep =>
          /\ oldRobot'.sends = << <<0, 0>> >>
          /\ oldRobot'.targetPose = oldRobot.targetPose
          /\ oldRobot'.twistCommand = oldRobot.twistCommand
          /\ oldRobot'.currentPose = oldRobot.currentPose
C10_UnknownKindLeavesState == [][C10_UnknownKindStep]_vars

\* C10 witness: the kind 0xFFFF was answered with 00 00 by a robot with a
\* fresh twist, a pose, a map, log level 3 and a promise, and by a robot of
\* the older variant that holds a twist
C10_Witness ==
    /\ lastEval.handled /\ Framed(lastEval.request)
    /\ RequestType(lastEval.request) = 65535
    /\ lastEval.sends = << <<0, 0>> >>
    /\ commandSlots[TWIST_COMMAND] = [command |-> Msg(1, 0), isnew |-> TRUE]
    /\ buffers[CURRENT_POSE] # <<>>
    /\ mapBuffer.data[0] # <<>>
    /\ logLevel = 3
    /\ pendingPermissionRequests[1].satisfied
    /\ oldRobot.handled
    /\ RequestType(oldRobot.request) = 65535
    /\ oldRobot.sends = << <<0, 0>> >>
    /\ oldRobot.twistCommand = Msg(1, 0)

\* C11: a blob shorter than two bytes is answered with the NO_DATA tag and
\* evaluateRequest returns NO_DATA without throwing; no slot is written
C11_ShortBlobAnsweredNoData ==
    (lastEval.handled /\ ~Framed(lastEval.request)) =>
        /\ ~lastEval.threw
        /\ lastEval.ret = NO_CONTROL_DATA
        /\ lastEval.sends = <<serializeControlMessageType(NO_CONTROL_DATA)>>

\* the last evaluated request was a FILE_REQUEST
IsFileRequest(e) ==
    /\ e.handled /\ Framed(e.request)
    /\ RequestType(e.request) = FILE_REQUEST
FileRequestOf(e) == ParseFromString(RequestPayload(e.request)).val
Defined(identifier) == \E i \in 1..Len(files) : files[i].identifier = identifier

\* C12: a FILE_REQUEST for an identifier without a file definition is
\* answered with a Folder that has only the identifier field, which reads
\* "file/folder :<identifier> undefined"; the file definitions stay as they are
C12_UndefinedReply ==
    (IsFileRequest(lastEval) /\ ~Defined(FileRequestOf(lastEval).f1)) =>
        /\ lastEval.ret = FILE_REQUEST
        /\ lastEval.sends = << <<FieldTag(1), UndefinedText(FileRequestOf(lastEval).f1)>> >>
C12_UndefinedFileRequest == [](C12_UndefinedReply) /\ [][files' = files]_vars

\* C12 witness: identifier 3 was asked for (compressed) of a robot with two
\* file definitions
C12_Witness ==
    /\ files = FileDefs
    /\ IsFileRequest(lastEval)
    /\ FileRequestOf(lastEval) = Msg(3, 1)
    /\ lastEval.sends = << <<FieldTag(1), 103>> >>

\* C13: splitting the blob made of the two bytes of kind k followed by the
\* payload b gives back k and b
C13_FramingRoundTrip ==
    frame.stage = "split" =>
        /\ frame.type = frame.kind
        /\ frame.serializedMessage = frame.payload

\* C13 witness: kind 256 with the payload ff 00 was framed as 00 01 ff 00 and
\* split again
C13_WitnessControl ==
    /\ frame.stage = "split"
    /\ frame.by = "addControlMessageType"
    /\ frame.kind = 256
    /\ frame.payload = <<255, 0>>
    /\ frame.blob = <<0, 1, 255, 0>>
    /\ frame.type = 256

\* C14: the receive loop of update() ends only when receive reported no data,
\* whatever the kinds of the blobs and whether they decode, and every blob
\* that was received and evaluated stores connected = true
C14_DrainStep ==
    /\ (pc = "recv" /\ pc' = "finish") => queued = 0
    /\ (pc = "recv" /\ queued' = queued - 1 /\ lastEval'.handled /\ ~lastEval'.threw) =>
          connected'
C14_UpdateDrains == [][C14_DrainStep]_vars

\* the last evaluated request was a command with a slot whose payload did not decode
IsFailedDecode(e) ==
    /\ e.handled /\ Framed(e.request)
    /\ RequestType(e.request) \in WrittenCommands
    /\ ~ParseFromString(RequestPayload(e.request)).ok

AllKinds ==
    {NO_CONTROL_DATA, TELEMETRY_REQUEST, MAP_REQUEST, LOG_LEVEL_SELECT, PERMISSION,
     FILE_REQUEST} \cup RegisteredCommands \cup TelemetryKinds
\* the blob begins with the two bytes of a kind
Tagged(blob) == Len(blob) >= 2 /\ ReadU16(blob) \in AllKinds

C17_RequestAlwaysReturnsFuture ==
    lastCall.op = "requestPermission" =>
        /\ fault = "none"
        /\ lastCall.future = "valid"
        /\ hist.pushed[PERMISSION_REQUEST] = <<Msg(lastCall.kind, 0)>> =>
              (pendingPermissionRequests[lastCall.kind].satisfied
                  => hist.answered[lastCall.kind])

\* C18: the table of pending permission requests has an entry for uid u
\* exactly while a request with uid u was emitted and no PERMISSION with uid
\* u was evaluated since
C18_PendingTableTracksOpenRequests ==
    \A u \in Uids :
        pendingPermissionRequests[u].present = (hist.requested[u] /\ ~hist.answered[u])

\* the file definition a FILE_REQUEST asks for
RequestedDef(e) == files[FindFile(files, FileRequestOf(e).f1, 1)]
\* loading it hit a filesystem error: the file does not open, or the
\* enumeration of the folder fails at the start or part-way
FsError(e) ==
    IF RequestedDef(e).isFolder THEN e.fs.listing # "ok" ELSE ~e.fs.readable

\* C19: when loading the requested file or folder hits a filesystem error the
\* reply is sent and is a Folder without file entries whose identifier is
\* the error text
C19_FsErrorGivesEmptyFolder ==
    (IsFileRequest(lastEval) /\ Defined(FileRequestOf(lastEval).f1) /\ FsError(lastEval)) =>
        \E compressed \in BOOLEAN :
            lastEval.sends =
                << SerializeFolder([identifier |-> ErrorText(RequestedDef(lastEval).path),
                                    compressed |-> compressed, file |-> <<>>]) >>

\* C20: sendTelemetry that sends returns the transport's result minus 2 as an
\* int, which is -2 when the transport sent nothing, and returns 0 when there
\* is no telemetry transport
C20_SendTelemetryReturn ==
    lastCall.op = "sendTelemetry" =>
        IF telemetryTransport
        THEN /\ Len(lastCall.sent) = 1
             /\ lastCall.bytes \in {0, Len(lastCall.sent[1])}
             /\ lastCall.ret = lastCall.bytes - 2
             /\ lastCall.bytes = 0 => lastCall.ret <= 0
        ELSE lastCall.sent = <<>> /\ lastCall.ret = 0

\* C20 witness: the transport failed and -2 was returned
C20_Witness ==
    /\ telemetryTransport
    /\ lastCall.op = "sendTelemetry"
    /\ lastCall.sent = << <<CURRENT_POSE, 0, FieldTag(1), 1>> >>
    /\ lastCall.bytes = 0
    /\ lastCall.ret = -2

\* a call of a setter that keeps the value for requests only
IsRequestOnlyCall(c) == c.op = "initMapsDefinition"

\* C21 as stated: after every call of a telemetry setter each slot holds the
\* last value pushed for its kind and is empty when none was pushed, with or
\* without a telemetry transport; a push for requests only sends nothing and
\* returns the framed size
C21_SlotHoldsLastPush ==
    /\ \A t \in TelemetryKinds : buffers[t] = hist.pushed[t]
    /\ IsRequestOnlyCall(lastCall) =>
          /\ lastCall.sent = <<>>
          /\ lastCall.ret = 2 + Len(SerializeToString(lastCall.arg))

\* C21 amended: with a telemetry transport each slot holds the last value that
\* reached sendTelemetry for its kind (a setLogMessage call the level gate
\* rejects pushes nothing), and a push for requests only stores the value,
\* sends nothing and returns the framed size; without a telemetry transport
\* every slot stays empty, nothing is sent and every push returns 0
C21_SlotHoldsLastPushIfTransport ==
    /\ \A t \in TelemetryKinds :
          buffers[t] = IF telemetryTransport THEN hist.pushed[t] ELSE <<>>
    /\ IsRequestOnlyCall(lastCall) =>
          /\ lastCall.sent = <<>>
          /\ IF telemetryTransport
             THEN /\ lastCall.ret = 2 + Len(SerializeToString(lastCall.arg))
                  /\ buffers[lastCall.kind] = <<lastCall.arg>>
             ELSE lastCall.ret = 0
    /\ (lastCall.op = "setLogMessage" /\ ~LogGate(lastCall.arg.f1, lastCall.level)) =>
          /\ lastCall.ret = -1
          /\ lastCall.sent = <<>>
    /\ (lastCall.op \in {"sendTelemetry", "setLogMessage"} /\ ~telemetryTransport) =>
          lastCall.sent = <<>> /\ lastCall.ret \in {0, -1}

\* C21 witness: with a transport a maps definition was pushed for requests
\* only; it is in its slot, nothing was sent and 4 was returned, the pose slot
\* holds the pose pushed before and the log slot is still empty
C21_Witness ==
    /\ telemetryTransport
    /\ IsRequestOnlyCall(lastCall)
    /\ lastCall.arg = Msg(MaxVal, 0)
    /\ lastCall.sent = <<>>
    /\ lastCall.ret = 4
    /\ buffers[MAPS_DEFINITION] = <<Msg(MaxVal, 0)>>
    /\ buffers[CURRENT_POSE] = <<Msg(1, 0)>>
    /\ buffers[LOG_MESSAGE] = <<>>
    /\ logLevel = 0

\* the last evaluated request was of a kind with a registered slot
IsRegisteredCommand(e) ==
    /\ e.handled /\ Framed(e.request)
    /\ RequestType(e.request) \in RegisteredCommands
Decodes(e) == ParseFromString(RequestPayload(e.request)).ok
KindEvents(e) == SelectSeq(e.events, LAMBDA ev : ev.cb = "kind")
GlobalEvents(e) == SelectSeq(e.events, LAMBDA ev : ev.cb = "global")

\* every per-kind callback registered for the kind ran once, in the order of
\* registration, and every global callback ran once with the kind as argument
CallbacksRanOnce(e) ==
    /\ Len(KindEvents(e)) = Len(e.registered)
    /\ \A i \in 1..Len(e.registered) :
          KindEvents(e)[i].does = e.registered[i]
            /\ KindEvents(e)[i].type = RequestType(e.request)
    /\ Len(GlobalEvents(e)) = e.globals
    /\ \A i \in 1..e.globals : GlobalEvents(e)[i].type = RequestType(e.request)
NoCallbackRan(e) == KindEvents(e) = <<>> /\ GlobalEvents(e) = <<>>

\* C22 as stated: an inbound command of a registered kind k that decodes is
\* answered with the tag k and runs every per-kind callback of k and every
\* global callback once (the global ones with k); one that fails to decode
\* runs no callback
C22_RegisteredCommandNotifies ==
    IsRegisteredCommand(lastEval) =>
        IF Decodes(lastEval)
        THEN /\ lastEval.sends = <<WriteU16(RequestType(lastEval.request))>>
             /\ CallbacksRanOnce(lastEval)
        ELSE NoCallbackRan(lastEval)

\* C22 amended: that holds for the registered kinds that reach the default
\* case of the switch; PERMISSION has a registered slot too, but its own case
\* answers with the tag PERMISSION and neither writes the slot nor runs any
\* per-kind or global callback
C22_WrittenCommandNotifies ==
    IsRegisteredCommand(lastEval) =>
        IF RequestType(lastEval.request) = PERMISSION
        THEN /\ lastEval.sends = <<WriteU16(PERMISSION)>>
             /\ NoCallbackRan(lastEval)
             /\ commandSlots[PERMISSION] = NewCommandBuffer
        ELSE IF Decodes(lastEval)
        THEN /\ lastEval.sends = <<WriteU16(RequestType(lastEval.request))>>
             /\ CallbacksRanOnce(lastEval)
        ELSE /\ lastEval.sends = <<WriteU16(NO_CONTROL_DATA)>>
             /\ NoCallbackRan(lastEval)

\* C22 witness: a twist that decodes ran two per-kind callbacks and two global
\* callbacks, and was acknowledged with its tag
C22_Witness ==
    /\ IsRegisteredCommand(lastEval)
    /\ RequestType(lastEval.request) = TWIST_COMMAND
    /\ Decodes(lastEval)
    /\ lastEval.registered = <<"observe", "read">>
    /\ lastEval.globals = 2
    /\ Len(KindEvents(lastEval)) = 2
    /\ Len(GlobalEvents(lastEval)) = 2
    /\ lastEval.sends = <<WriteU16(TWIST_COMMAND)>>

\* C23: a call of update() that gets no new blobs while it runs ends: the loop
\* leaves "recv" when receive() reports no data (or earlier, on a result of
\* NO_CONTROL_DATA), then the heartbeat slot is read and the timer checked in
\* one step and update() returns; the only other way out is the exception of
\* a blob shorter than two bytes
C23_UpdateTerminates ==
    /\ (pc # "idle") ~> (pc = "idle" \/ fault = "terminated")
    /\ [][(pc = "recv" /\ queued = 0 /\ pc' # pc) => pc' = "finish"]_vars
    /\ [][(pc = "finish" /\ pc' # pc) =>
            /\ pc' = "idle"
            /\ ~commandSlots'[HEARTBEAT].isnew
            /\ heartbeatValues' = commandSlots[HEARTBEAT].command
            /\ queued' = queued /\ lastEval' = lastEval]_vars

\* C23 witness: update() returned after it drained the queue; the last blob was
\* a heartbeat, so the loop went on until receive() reported no data
C23_Witness ==
    /\ pc = "idle"
    /\ queued = 0
    /\ lastEval.handled /\ ~lastEval.threw
    /\ lastEval.ret = HEARTBEAT
    /\ heartbeatValues = Msg(1, 0)
    /\ ~commandSlots[HEARTBEAT].isnew
    /\ connected

\* the steps that take the exclusion of a buffer, and the step that ends it
Acquire == {"lock buffers", "lock mapBuffer", "lock command"}
Release(a) ==
    CASE a = "lock buffers" -> "unlock buffers"
      [] a = "lock mapBuffer" -> "unlock mapBuffer"
      [] a = "lock command" -> "unlock command"
TransportIo == {"send", "receive"}

\* the exclusions a thread holds after the first n steps of an operation
RECURSIVE HeldAfter(_, _)
HeldAfter(trace, n) ==
    IF n = 0
    THEN {}
    ELSE LET h == HeldAfter(trace, n - 1) IN
         IF trace[n] \in Acquire
         THEN h \cup {trace[n]}
         ELSE { a \in h : Release(a) # trace[n] }

\* no send or receive of the operation happens while an exclusion is held, and
\* the operation ends holding none
NoIoUnderLock(trace) ==
    /\ \A i \in 1..Len(trace) : trace[i] \in TransportIo => HeldAfter(trace, i - 1) = {}
    /\ HeldAfter(trace, Len(trace)) = {}

\* C24: neither the update thread, in receiveRequest and evaluateRequest, nor
\* a caller of the public interface sends or receives on a transport while it
\* holds the exclusion of the telemetry buffer, the map buffer or a command slot
C24_NoIoUnderLock ==
    /\ NoIoUnderLock(lastEval.trace)
    /\ NoIoUnderLock(lastCall.trace)

\* C24 witness: a map request was answered after the map buffer's exclusion
\* ended, and a pose was sent after the telemetry buffer's exclusion ended
C24_Witness ==
    /\ lastEval.trace = <<"receive", "lock mapBuffer", "peek", "unlock mapBuffer", "send">>
    /\ lastEval.sends = << <<1>> >>
    /\ lastCall.trace = <<"lock buffers", "pushData", "unlock buffers", "send">>
    /\ lastCall.sent = << WriteU16(CURRENT_POSE) \o SerializeToString(Msg(1, 0)) >>

\* C25: under every interleaving of a write of the update thread with a read
\* of another thread, a read that returns true was preceded by a successful
\* write completed since the previous read, and yields the value of the most
\* recent completed successful write (taken when the value is copied)
C25_TrueReadYieldsCompletedWrite ==
    (lastCall.op = "getCommand" /\ lastCall.ret = 1) =>
        /\ lastCall.before.okWrite
        /\ lastCall.value = lastCall.before.decoded

\* C26: no command is lost to a race: whenever no read and no write is under
\* way, a command that was written successfully and not yet returned by a
\* read with true is still flagged fresh, so that the next read returns true
C26_NoCommandLost ==
    (reader.pc = "idle" /\ pc # "write") =>
        \A k \in UserCommands : hist.owed[k] => commandSlots[k].isnew

\* C27: once every push of a pose has returned, the slot holds the value that
\* was sent last on the telemetry transport: what a TELEMETRY_REQUEST is
\* served from the slot is the blob sent last
C27_SlotIsLastSent ==
    ((\A t \in Pushers : pushers[t].pc = "idle") /\ lastSent # <<>>) =>
        peekSerialized(buffers, CURRENT_POSE) = lastSent

\* what is left in a message by a parse that failed
FailedParseValues == { ParseFromString(p).val : p \in BadPayloads }

WrittenTrace ==
    <<"receive", "lock command", "write", "unlock command", "isnew", "notify", "send",
      "notifyCommandCallbacks">>

\* C29: while one command that decodes is handled, the value and the flag of
\* the slot are stored before the first per-kind callback runs (each per-kind
\* callback finds the new value, and finds the flag set unless a callback
\* before it read the slot), the per-kind callbacks run before the ACK is
\* sent, and the global callbacks run after the ACK
C29_CommandOrdering ==
    (IsRegisteredCommand(lastEval) /\ RequestType(lastEval.request) # PERMISSION
        /\ Decodes(lastEval)) =>
        LET ev == lastEval.events
            n == Len(lastEval.registered)
            new == ParseFromString(RequestPayload(lastEval.request)).val
        IN  /\ lastEval.trace = WrittenTrace
            /\ Len(ev) = n + 1 + lastEval.globals
            /\ \A i \in 1..n :
                  /\ ev[i].cb = "kind"
                  /\ ev[i].value = new
                  /\ ev[i].fresh = (\A j \in 1..(i - 1) : lastEval.registered[j] # "read")
            /\ ev[n + 1].cb = "send"
            /\ \A i \in (n + 2)..Len(ev) : ev[i].cb = "global" /\ ev[i].value = new

\* C29 witness: a twist ran a per-kind callback that read the slot and got
\* true with the new value, then the ACK went out with the flag already
\* consumed, then a global callback ran
C29_Witness ==
    /\ IsRegisteredCommand(lastEval)
    /\ RequestType(lastEval.request) = TWIST_COMMAND
    /\ lastEval.registered = <<"read">>
    /\ lastEval.globals = 1
    /\ Len(lastEval.events) = 3
    /\ lastEval.events[1] = Event("kind", TWIST_COMMAND, "read", [command |-> Msg(1, 0), isnew |-> TRUE])
    /\ lastEval.events[2] = Event("send", TWIST_COMMAND, "send", [command |-> Msg(1, 0), isnew |-> FALSE])
    /\ lastEval.events[3].cb = "global"
    /\ ~commandSlots[TWIST_COMMAND].isnew

====
